---- MODULE Spec2Model ----
(***************************************************************************)
(* Four-phase batched video-upscaling pipeline of SeedVR2                  *)
(* (src/src/core/generation.py): encode-all, upscale-all, decode-all,      *)
(* postprocess-all over one generation context.                            *)
(*                                                                         *)
(* Python lists are 0-based; the sequences below are 1-based, so the       *)
(* Python entry lst[i] is At(lst, i).  A slot that Python holds as None is *)
(* the empty tuple None; a filled slot holding v is the 1-tuple Some(v).   *)
(* Frames are identified by their index in the input tensor `images`.      *)
(***************************************************************************)
EXTENDS Integers, Sequences, FiniteSets, TLC

(* ------------------------------ bounds --------------------------------- *)
MaxFrames == 7
MaxBatch == 5
MaxOverlap == 3

(* ------------------------------ helpers -------------------------------- *)
None == <<>>
Some(v) == <<v>>
IsNone(s) == s = <<>>
Val(s) == s[1]
At(lst, i) == lst[i + 1]
Put(lst, i, v) == [lst EXCEPT ![i + 1] = v]
NoneList(n) == [k \in 1..n |-> None]
Min(a, b) == IF a <= b THEN a ELSE b
Max(a, b) == IF a >= b THEN a ELSE b
CountValid(lst) == Cardinality({k \in 1..Len(lst) : ~IsNone(lst[k])})

RECURSIVE SumSeq(_)
SumSeq(s) == IF s = <<>> THEN 0 ELSE Head(s) + SumSeq(Tail(s))

(* images[start:end] of the input tensor of T frames *)
Slice(start, end) == [k \in 1..(end - start) |-> start + k - 1]

(* ------------------- Phase 1 batching arithmetic ----------------------- *)
(* step = batch_size - temporal_overlap if temporal_overlap > 0 else       *)
(* batch_size; if step <= 0: step = batch_size, temporal_overlap = 0       *)
RawStep(bs, ov) == IF ov > 0 THEN bs - ov ELSE bs
Step(bs, ov) == IF RawStep(bs, ov) <= 0 THEN bs ELSE RawStep(bs, ov)
EffOverlap(bs, ov) == IF RawStep(bs, ov) <= 0 THEN 0 ELSE ov

(* the break test of both Phase-1 loops: idx > 0 and end - idx <= overlap  *)
BreakOffMut(idx, T, bs, ov) == idx > 0 /\ Min(idx + bs, T) - idx < ov
BreakOffLate(idx, T, bs, ov) == idx > 0 /\ Min(idx + bs, T) - idx <= ov + 1
BreakOff(idx, T, bs, ov) == idx > 0 /\ Min(idx + bs, T) - idx <= ov

(* the counting loop that sizes the slot arrays *)
RECURSIVE CountFrom(_, _, _, _, _)
CountFrom(idx, T, bs, st, ov) ==
    IF idx >= T THEN 0
    ELSE IF BreakOff(idx, T, bs, ov) THEN 0
    ELSE 1 + CountFrom(idx + st, T, bs, st, ov)
NumEncodeBatchesMut(T, bs, ov) ==
    CountFrom(0, T, bs, Step(bs, ov), EffOverlap(bs, ov)) + 1
NumEncodeBatches(T, bs, ov) ==
    CountFrom(0, T, bs, Step(bs, ov), EffOverlap(bs, ov))

(* ------------------------- frame conforming ---------------------------- *)
(* target logged by encode_all_batches: ((t-1)//4+1)*4+1 *)
Target(t) == ((t - 1) \div 4 + 1) * 4 + 1

(* cut_videos: padding_needed = (4 - (t % 4)) % 4 + 1 *)
PaddingNeededMut(t) == ((4 - (t % 4)) % 4) + 2
PaddingNeeded(t) == ((4 - (t % 4)) % 4) + 1

(* cut_videos: unchanged when t % 4 == 1, else the last frame is repeated  *)
(* padding_needed times and concatenated                                   *)
cut_videos(videos) ==
    LET t == Len(videos) IN
    IF t % 4 = 1 THEN videos
    ELSE videos \o [k \in 1..PaddingNeeded(t) |-> videos[t]]

(* encode_all_batches, lines 657-671: pad once if t % 4 != 1 *)
ConformMut(video) == video
Conform(video) == IF Len(video) % 4 # 1 THEN cut_videos(video) ELSE video

(* tensor.to('cpu') / tensor.cpu() before a result is kept in the context  *)
to_cpuMut(tensor) == tensor
to_cpu(tensor) == [tensor EXCEPT !.dev = "cpu"]

(* ------------------------ external operators --------------------------- *)
(* A tensor is a record whose field dev is the device it resides on; the   *)
(* operators compute on the accelerator and leave their result there       *)
(* VAE encode: the latent of batch src has temporal extent (t-1)/4 + 1     *)
vae_encode(src, frames) ==
    [src |-> src, tl |-> (Len(frames) - 1) \div 4 + 1, dev |-> "accel"]
(* DiT inference keeps the latent's shape family *)
inference(latent) == [src |-> latent.src, tl |-> latent.tl, dev |-> "accel"]
(* VAE decode: a latent of temporal extent tl yields 4*(tl-1)+1 frames     *)
(* of three channels                                                       *)
vae_decode(latent) ==
    [src |-> latent.src, n |-> 4 * (latent.tl - 1) + 1, c |-> 3,
     alpha |-> None, dev |-> "accel"]
(* alpha operator: the sample comes back with four channels, its alpha     *)
(* made from the given alpha plane, on the device the operator leaves it   *)
process_alpha_for_batch(rgb_samples, alpha_original, rgb_original, device) ==
    [rgb_samples EXCEPT !.c = 4, !.alpha = Some(alpha_original.src),
                        !.dev = device]

(* Stager: a model is fully on the target device on return *)
manage_model_device(target) == target
(* cleanup_dit / cleanup_vae: the model leaves the accelerator *)
cleanup_model(dev) == "cpu"

(* ------------------------------- state --------------------------------- *)
VARIABLES
    total_frames, batch_size, temporal_overlap, preserve_vram,
    color_correction, input_channels,
    present, all_latents, all_ori_lengths, all_transformed_videos,
    all_upscaled_latents, batch_samples, final_video, text_embeds,
    vae_placement, dit_placement,
    pc, calls, batch_idx, encode_idx, upscale_idx, decode_idx,
    current_frame_idx, encode_call,
    is_rgba, all_alpha_channels, all_input_rgb, final_channels, alpha_call,
    dit_dtype, vae_dtype, compute_dtype, autocast_dtype, precision_calls,
    batch_params,
    method, content_feat, style_feat, corrected,
    source, reference, source_indices, matched,
    content_h, content_s, style_h, style_s, matched_s, bin_idx,
    wave_content, wave_style, wave_dtype, wave_result

inputs == <<total_frames, batch_size, temporal_overlap, preserve_vram,
            color_correction, input_channels>>
(* ctx['compute_dtype'], ctx['autocast_dtype'], the weight dtypes of the   *)
(* runner's models, and the number of calls of the precision detector      *)
precision == <<dit_dtype, vae_dtype, compute_dtype, autocast_dtype,
               precision_calls>>
(* what the functions specified on their own work on *)
(* the dictionary calculate_optimal_batch_params returned *)
planner == <<batch_params>>
(* a color-correction method, its two arguments and what it returned *)
color == <<method, content_feat, style_feat, corrected>>
(* 1-D histogram matching: the two flattened tensors, the permutation      *)
(* torch.sort returned for source, and the result                          *)
histogram == <<source, reference, source_indices, matched>>
(* hue-conditional saturation matching: hue and saturation planes of       *)
(* content and style, the saturation plane being built, and the loop       *)
(* variable over the hue bins                                              *)
hue == <<content_h, content_s, style_h, style_s, matched_s, bin_idx>>
(* wavelet reconstruction on pixel values: the two images, their dtype    *)
(* and the image returned                                                  *)
wavelet == <<wave_content, wave_style, wave_dtype, wave_result>>
functions == <<precision, planner, color, histogram, hue, wavelet>>
(* what no step of the four phases changes *)
config == <<inputs, functions>>
slots == <<present, all_latents, all_ori_lengths, all_transformed_videos,
           all_upscaled_latents, batch_samples, final_video, text_embeds>>
models == <<vae_placement, dit_placement>>
control == <<pc, calls, batch_idx, encode_idx, upscale_idx, decode_idx,
             current_frame_idx, encode_call>>
(* the RGBA path: ctx['is_rgba'], the alpha and RGB planes kept per batch, *)
(* the channel count of final_video, and the last call of the alpha       *)
(* operator                                                               *)
rgba == <<is_rgba, all_alpha_channels, all_input_rgb, final_channels,
          alpha_call>>
vars == <<config, slots, models, control, rgba>>
pipeline == <<inputs, slots, models, control, rgba>>

step == Step(batch_size, temporal_overlap)
overlap == EffOverlap(batch_size, temporal_overlap)
num_encode_batches == NumEncodeBatches(total_frames, batch_size, temporal_overlap)

(* prepare_generation_context: empty lists, no final video, no embeddings; *)
(* 'all_ori_lengths' is not a key of the fresh context.  The models of a   *)
(* freshly configured runner are on the meta device or cached in RAM.      *)
FreshContext ==
    /\ present = {"all_latents", "all_transformed_videos",
                  "all_upscaled_latents", "batch_samples"}
    /\ all_latents = <<>>
    /\ all_ori_lengths = <<>>
    /\ all_transformed_videos = <<>>
    /\ all_upscaled_latents = <<>>
    /\ batch_samples = <<>>
    /\ final_video = None
    /\ text_embeds = "none"
    /\ pc = "idle"
    /\ calls = <<>>
    /\ batch_idx = 0
    /\ encode_idx = 0
    /\ upscale_idx = 0
    /\ decode_idx = 0
    /\ current_frame_idx = 0
    /\ encode_call = None
    /\ is_rgba = FALSE
    /\ all_alpha_channels = <<>>
    /\ all_input_rgb = <<>>
    /\ final_channels = 0
    /\ alpha_call = None

(* the precision detector has not been called *)
PrecisionIdle ==
    /\ dit_dtype = None
    /\ vae_dtype = None
    /\ compute_dtype = None
    /\ autocast_dtype = None
    /\ precision_calls = 0

PlannerIdle == batch_params = None
ColorIdle ==
    /\ method = None
    /\ content_feat = None
    /\ style_feat = None
    /\ corrected = None
HistogramIdle ==
    /\ source = None
    /\ reference = None
    /\ source_indices = None
    /\ matched = None
HueIdle ==
    /\ content_h = None
    /\ content_s = None
    /\ style_h = None
    /\ style_s = None
    /\ matched_s = None
    /\ bin_idx = 0
WaveletIdle ==
    /\ wave_content = None
    /\ wave_style = None
    /\ wave_dtype = None
    /\ wave_result = None

Init ==
    /\ total_frames \in 0..MaxFrames
    /\ batch_size \in 1..MaxBatch
    /\ temporal_overlap \in 0..MaxOverlap
    /\ preserve_vram \in BOOLEAN
    /\ color_correction \in {"none", "wavelet"}
    /\ input_channels \in {3, 4}
    /\ vae_placement \in {"meta", "cpu"}
    /\ dit_placement \in {"meta", "cpu"}
    /\ FreshContext
    /\ PrecisionIdle /\ PlannerIdle /\ ColorIdle /\ HistogramIdle /\ HueIdle
    /\ WaveletIdle

(* the caller: phase n+1 is invoked after the call of phase n has ended *)
NextPhase == Len(calls) + 1
Ended(outcome) == /\ calls' = Append(calls, outcome)
                  /\ pc' = "idle"

(* ------------------------ Phase 1: encode_all_batches ------------------ *)
(* finally: offload the VAE when preserve_vram *)
EncodeFinallyMut(dev) == dev
EncodeFinally(dev) ==
    IF preserve_vram THEN manage_model_device("cpu") ELSE dev

(* lines 584-606: slot arrays sized by the counting loop *)
EncodeAllocate ==
    /\ all_latents' = NoneList(num_encode_batches)
    /\ all_ori_lengths' = NoneList(num_encode_batches)
    /\ IF color_correction # "none"
       THEN /\ all_transformed_videos' = NoneList(num_encode_batches)
            /\ present' = present \cup {"all_ori_lengths", "all_transformed_videos"}
       ELSE /\ all_transformed_videos' = <<>>
            /\ present' = (present \cup {"all_ori_lengths"}) \ {"all_transformed_videos"}
    /\ encode_idx' = 0
    /\ batch_idx' = 0

(* total_frames == 0: ValueError("No frames to process") before any slot   *)
(* array is created                                                        *)
EncodeInvalidMut ==
    /\ pc = "idle" /\ NextPhase = 1
    /\ total_frames = 0
    /\ EncodeAllocate
    /\ Ended("ValueError")
    /\ UNCHANGED <<config, all_upscaled_latents, batch_samples, final_video,
                   text_embeds, models, upscale_idx, decode_idx,
                   current_frame_idx, encode_call>>
    /\ UNCHANGED rgba
EncodeInvalid ==
    /\ pc = "idle" /\ NextPhase = 1
    /\ total_frames = 0
    /\ Ended("ValueError")
    /\ UNCHANGED <<config, slots, models, batch_idx, encode_idx, upscale_idx,
                   decode_idx, current_frame_idx, encode_call>>
    /\ UNCHANGED rgba

(* validation passed, arrays allocated, VAE staged on its device *)
EncodeStart ==
    /\ pc = "idle" /\ NextPhase = 1
    /\ total_frames # 0
    /\ EncodeAllocate
    /\ is_rgba' = (input_channels = 4)
    /\ vae_placement' = manage_model_device("accel")
    /\ pc' = "p1"
    /\ UNCHANGED <<config, all_upscaled_latents, batch_samples, final_video,
                   text_embeds, dit_placement, calls, upscale_idx, decode_idx,
                   current_frame_idx, encode_call, all_alpha_channels,
                   all_input_rgb, final_channels, alpha_call>>

(* materialization / staging of the VAE fails inside the try block *)
EncodeStartFault ==
    /\ pc = "idle" /\ NextPhase = 1
    /\ total_frames # 0
    /\ EncodeAllocate
    /\ is_rgba' = (input_channels = 4)
    /\ vae_placement' = EncodeFinally(vae_placement)
    /\ Ended("RuntimeError")
    /\ UNCHANGED <<config, all_upscaled_latents, batch_samples, final_video,
                   text_embeds, dit_placement, upscale_idx, decode_idx,
                   current_frame_idx, encode_call, all_alpha_channels,
                   all_input_rgb, final_channels, alpha_call>>

(* locals of one loop iteration, lines 638-671 *)
EncStart == batch_idx
EncEnd == Min(batch_idx + batch_size, total_frames)
EncVideo == Slice(EncStart, EncEnd)
EncCall ==
    [idx |-> encode_idx, start |-> EncStart, end |-> EncEnd,
     video |-> EncVideo, transformed |-> Conform(EncVideo)]

(* lines 714-717: the alpha and RGB lists are created by the first         *)
(* iteration that finds them missing from ctx                              *)
EncPlaneList(key, lst) ==
    IF key \in present THEN lst ELSE NoneList(num_encode_batches)
(* the plane of the padded original video kept for batch encode_idx *)
EncPlane ==
    [src |-> encode_idx, n |-> Len(Conform(EncVideo)), dev |-> "accel"]
(* the transformed video, on the VAE device like the batch it was made of *)
transformed_video == [frames |-> Conform(EncVideo), dev |-> "accel"]

(* lines 703-727: ori_length, the transformed video and, for RGBA input,   *)
(* the alpha and RGB planes are stored before the encoder is called        *)
EncodeStore ==
    /\ all_ori_lengths' = Put(all_ori_lengths, encode_idx, Some(Len(EncVideo)))
    /\ all_transformed_videos' =
          IF color_correction # "none"
          THEN Put(all_transformed_videos, encode_idx,
                   Some(to_cpu(transformed_video)))
          ELSE all_transformed_videos
    /\ IF is_rgba
       THEN /\ all_alpha_channels' =
                  Put(EncPlaneList("all_alpha_channels", all_alpha_channels),
                      encode_idx, Some(to_cpu(EncPlane)))
            /\ all_input_rgb' =
                  Put(EncPlaneList("all_input_rgb", all_input_rgb),
                      encode_idx, Some(to_cpu(EncPlane)))
            /\ present' = present \cup {"all_alpha_channels", "all_input_rgb"}
       ELSE UNCHANGED <<all_alpha_channels, all_input_rgb, present>>
    /\ encode_call' = Some(EncCall)
    /\ UNCHANGED <<is_rgba, final_channels, alpha_call>>

(* check_interrupt raises at the top of a loop iteration *)
EncodeInterruptMut ==
    /\ pc = "p1"
    /\ batch_idx < total_frames
    /\ ~BreakOff(batch_idx, total_frames, batch_size, overlap)
    /\ EncodeStore
    /\ vae_placement' = EncodeFinally(vae_placement)
    /\ Ended("Interrupt")
    /\ UNCHANGED <<config, all_latents, all_upscaled_latents,
                   batch_samples, final_video, text_embeds, dit_placement,
                   batch_idx, encode_idx, upscale_idx, decode_idx,
                   current_frame_idx>>
EncodeInterrupt ==
    /\ pc = "p1"
    /\ batch_idx < total_frames
    /\ vae_placement' = EncodeFinally(vae_placement)
    /\ Ended("Interrupt")
    /\ UNCHANGED <<config, slots, dit_placement, batch_idx, encode_idx,
                   upscale_idx, decode_idx, current_frame_idx, encode_call>>
    /\ UNCHANGED rgba

(* one complete loop iteration *)
EncodeBatch ==
    /\ pc = "p1"
    /\ batch_idx < total_frames
    /\ ~BreakOff(batch_idx, total_frames, batch_size, overlap)
    /\ EncodeStore
    /\ all_latents' = Put(all_latents, encode_idx,
                          Some(to_cpu(vae_encode(encode_idx,
                                                 transformed_video.frames))))
    /\ encode_idx' = encode_idx + 1
    /\ batch_idx' = batch_idx + step
    /\ UNCHANGED <<config, all_upscaled_latents, batch_samples,
                   final_video, text_embeds, models, pc, calls, upscale_idx,
                   decode_idx, current_frame_idx>>

(* runner.vae_encode raises: the iteration's earlier stores remain *)
EncodeFault ==
    /\ pc = "p1"
    /\ batch_idx < total_frames
    /\ ~BreakOff(batch_idx, total_frames, batch_size, overlap)
    /\ EncodeStore
    /\ vae_placement' = EncodeFinally(vae_placement)
    /\ Ended("RuntimeError")
    /\ UNCHANGED <<config, all_latents, all_upscaled_latents,
                   batch_samples, final_video, text_embeds, dit_placement,
                   batch_idx, encode_idx, upscale_idx, decode_idx,
                   current_frame_idx>>

(* the range is exhausted or the loop breaks; finally; return ctx *)
EncodeReturn ==
    /\ pc = "p1"
    /\ \/ batch_idx >= total_frames
       \/ BreakOff(batch_idx, total_frames, batch_size, overlap)
    /\ vae_placement' = EncodeFinally(vae_placement)
    /\ Ended("returned")
    /\ UNCHANGED <<config, slots, dit_placement, batch_idx, encode_idx,
                   upscale_idx, decode_idx, current_frame_idx, encode_call>>
    /\ UNCHANGED rgba

Phase1 ==
    \/ EncodeInvalid \/ EncodeStart \/ EncodeStartFault \/ EncodeInterrupt
    \/ EncodeBatch \/ EncodeFault \/ EncodeReturn

(* ------------------------ Phase 2: upscale_all_batches ----------------- *)
(* finally: cleanup_dit, cleanup_text_embeddings, clear_memory *)
UpscaleFinallyMut ==
    /\ dit_placement' = dit_placement
    /\ text_embeds' = "none"
UpscaleFinally ==
    /\ dit_placement' = cleanup_model(dit_placement)
    /\ text_embeds' = "none"

(* 'all_latents' not in ctx or not ctx['all_latents'] *)
UpscaleInvalid ==
    /\ pc = "idle" /\ NextPhase = 2
    /\ \/ "all_latents" \notin present
       \/ all_latents = <<>>
    /\ Ended("ValueError")
    /\ UNCHANGED <<config, slots, models, batch_idx, encode_idx, upscale_idx,
                   decode_idx, current_frame_idx, encode_call>>
    /\ UNCHANGED rgba

(* num_valid_latents == 0: the list is replaced by [] and ctx is returned  *)
(* before the try block; the text embeddings loaded above stay loaded      *)
UpscaleEmpty ==
    /\ pc = "idle" /\ NextPhase = 2
    /\ "all_latents" \in present /\ all_latents # <<>>
    /\ CountValid(all_latents) = 0
    /\ text_embeds' = "accel"
    /\ all_upscaled_latents' = <<>>
    /\ present' = present \cup {"all_upscaled_latents"}
    /\ Ended("returned")
    /\ UNCHANGED <<config, all_latents, all_ori_lengths,
                   all_transformed_videos, batch_samples, final_video, models,
                   batch_idx, encode_idx, upscale_idx, decode_idx,
                   current_frame_idx, encode_call>>
    /\ UNCHANGED rgba

UpscaleAllocate ==
    /\ "all_latents" \in present /\ all_latents # <<>>
    /\ CountValid(all_latents) # 0
    /\ all_upscaled_latents' = NoneList(CountValid(all_latents))
    /\ present' = present \cup {"all_upscaled_latents"}
    /\ upscale_idx' = 0
    /\ batch_idx' = 0

UpscaleStart ==
    /\ pc = "idle" /\ NextPhase = 2
    /\ UpscaleAllocate
    /\ text_embeds' = "accel"
    /\ dit_placement' = manage_model_device("accel")
    /\ pc' = "p2"
    /\ UNCHANGED <<config, all_latents, all_ori_lengths,
                   all_transformed_videos, batch_samples, final_video,
                   vae_placement, calls, encode_idx, decode_idx,
                   current_frame_idx, encode_call>>
    /\ UNCHANGED rgba

UpscaleStartFault ==
    /\ pc = "idle" /\ NextPhase = 2
    /\ UpscaleAllocate
    /\ UpscaleFinally
    /\ Ended("RuntimeError")
    /\ UNCHANGED <<config, all_latents, all_ori_lengths,
                   all_transformed_videos, batch_samples, final_video,
                   vae_placement, encode_idx, decode_idx, current_frame_idx,
                   encode_call>>
    /\ UNCHANGED rgba

(* if latent is None: continue *)
UpscaleSkip ==
    /\ pc = "p2"
    /\ batch_idx < Len(all_latents)
    /\ IsNone(At(all_latents, batch_idx))
    /\ batch_idx' = batch_idx + 1
    /\ UNCHANGED <<config, slots, models, pc, calls, encode_idx, upscale_idx,
                   decode_idx, current_frame_idx, encode_call>>
    /\ UNCHANGED rgba

UpscaleInterrupt ==
    /\ pc = "p2"
    /\ batch_idx < Len(all_latents)
    /\ ~IsNone(At(all_latents, batch_idx))
    /\ UpscaleFinally
    /\ Ended("Interrupt")
    /\ UNCHANGED <<config, present, all_latents, all_ori_lengths,
                   all_transformed_videos, all_upscaled_latents, batch_samples,
                   final_video, vae_placement, batch_idx, encode_idx,
                   upscale_idx, decode_idx, current_frame_idx, encode_call>>
    /\ UNCHANGED rgba

(* lines 937-942: the slot of the consumed latent after the result is kept *)
ConsumedLatentMut(latent) == latent
ConsumedLatent(latent) == None

UpscaleBatch ==
    /\ pc = "p2"
    /\ batch_idx < Len(all_latents)
    /\ ~IsNone(At(all_latents, batch_idx))
    /\ all_upscaled_latents' =
          Put(all_upscaled_latents, upscale_idx,
              Some(to_cpu(inference(Val(At(all_latents, batch_idx))))))
    /\ all_latents' = Put(all_latents, batch_idx,
                          ConsumedLatent(At(all_latents, batch_idx)))
    /\ upscale_idx' = upscale_idx + 1
    /\ batch_idx' = batch_idx + 1
    /\ UNCHANGED <<config, present, all_ori_lengths, all_transformed_videos,
                   batch_samples, final_video, text_embeds, models, pc, calls,
                   encode_idx, decode_idx, current_frame_idx, encode_call>>
    /\ UNCHANGED rgba

(* runner.get_condition / runner.inference raises *)
UpscaleFaultMut ==
    /\ pc = "p2"
    /\ batch_idx < Len(all_latents)
    /\ ~IsNone(At(all_latents, batch_idx))
    /\ all_upscaled_latents' =
          Put(all_upscaled_latents, upscale_idx,
              Some(to_cpu(inference(Val(At(all_latents, batch_idx))))))
    /\ UpscaleFinally
    /\ Ended("RuntimeError")
    /\ UNCHANGED <<config, present, all_latents, all_ori_lengths,
                   all_transformed_videos, batch_samples,
                   final_video, vae_placement, batch_idx, encode_idx,
                   upscale_idx, decode_idx, current_frame_idx, encode_call>>
    /\ UNCHANGED rgba
UpscaleFault ==
    /\ pc = "p2"
    /\ batch_idx < Len(all_latents)
    /\ ~IsNone(At(all_latents, batch_idx))
    /\ UpscaleFinally
    /\ Ended("RuntimeError")
    /\ UNCHANGED <<config, present, all_latents, all_ori_lengths,
                   all_transformed_videos, all_upscaled_latents, batch_samples,
                   final_video, vae_placement, batch_idx, encode_idx,
                   upscale_idx, decode_idx, current_frame_idx, encode_call>>
    /\ UNCHANGED rgba

UpscaleReturn ==
    /\ pc = "p2"
    /\ batch_idx >= Len(all_latents)
    /\ UpscaleFinally
    /\ Ended("returned")
    /\ UNCHANGED <<config, present, all_latents, all_ori_lengths,
                   all_transformed_videos, all_upscaled_latents, batch_samples,
                   final_video, vae_placement, batch_idx, encode_idx,
                   upscale_idx, decode_idx, current_frame_idx, encode_call>>
    /\ UNCHANGED rgba

Phase2 ==
    \/ UpscaleInvalid \/ UpscaleEmpty \/ UpscaleStart \/ UpscaleStartFault
    \/ UpscaleSkip \/ UpscaleInterrupt \/ UpscaleBatch \/ UpscaleFault
    \/ UpscaleReturn

(* ------------------------ Phase 3: decode_all_batches ------------------ *)
(* finally: cleanup_vae; release and delete ctx['all_upscaled_latents'] *)
DecodeFinally ==
    /\ vae_placement' = cleanup_model(vae_placement)
    /\ present' = present \ {"all_upscaled_latents"}

DecodeInvalid ==
    /\ pc = "idle" /\ NextPhase = 3
    /\ \/ "all_upscaled_latents" \notin present
       \/ all_upscaled_latents = <<>>
    /\ Ended("ValueError")
    /\ UNCHANGED <<config, slots, models, batch_idx, encode_idx, upscale_idx,
                   decode_idx, current_frame_idx, encode_call>>
    /\ UNCHANGED rgba

(* batch_samples is sized by the number of non-null original lengths *)
DecodeAllocate ==
    /\ "all_upscaled_latents" \in present /\ all_upscaled_latents # <<>>
    /\ batch_samples' = NoneList(CountValid(all_ori_lengths))
    /\ decode_idx' = 0
    /\ batch_idx' = 0

DecodeStart ==
    /\ pc = "idle" /\ NextPhase = 3
    /\ DecodeAllocate
    /\ present' = present \cup {"batch_samples"}
    /\ vae_placement' = manage_model_device("accel")
    /\ pc' = "p3"
    /\ UNCHANGED <<config, all_latents, all_ori_lengths,
                   all_transformed_videos, all_upscaled_latents, final_video,
                   text_embeds, dit_placement, calls, encode_idx, upscale_idx,
                   current_frame_idx, encode_call>>
    /\ UNCHANGED rgba

DecodeStartFault ==
    /\ pc = "idle" /\ NextPhase = 3
    /\ DecodeAllocate
    /\ vae_placement' = cleanup_model(vae_placement)
    /\ present' = (present \cup {"batch_samples"}) \ {"all_upscaled_latents"}
    /\ all_upscaled_latents' = <<>>
    /\ Ended("RuntimeError")
    /\ UNCHANGED <<config, all_latents, all_ori_lengths,
                   all_transformed_videos, final_video, text_embeds,
                   dit_placement, encode_idx, upscale_idx, current_frame_idx,
                   encode_call>>
    /\ UNCHANGED rgba

DecodeSkip ==
    /\ pc = "p3"
    /\ batch_idx < Len(all_upscaled_latents)
    /\ IsNone(At(all_upscaled_latents, batch_idx))
    /\ batch_idx' = batch_idx + 1
    /\ UNCHANGED <<config, slots, models, pc, calls, encode_idx, upscale_idx,
                   decode_idx, current_frame_idx, encode_call>>
    /\ UNCHANGED rgba

DecodeRaise(outcome) ==
    /\ DecodeFinally
    /\ all_upscaled_latents' = <<>>
    /\ Ended(outcome)
    /\ UNCHANGED <<config, all_latents, all_ori_lengths,
                   all_transformed_videos, batch_samples, final_video,
                   text_embeds, dit_placement, batch_idx, encode_idx,
                   upscale_idx, decode_idx, current_frame_idx, encode_call>>
    /\ UNCHANGED rgba

DecodeInterrupt ==
    /\ pc = "p3"
    /\ batch_idx < Len(all_upscaled_latents)
    /\ ~IsNone(At(all_upscaled_latents, batch_idx))
    /\ DecodeRaise("Interrupt")

(* lines 1104-1106: the slot of the consumed upscaled latent *)
ConsumedUpscaledMut(latent) == latent
ConsumedUpscaled(latent) == None

(* decode_idx += 1 after the sample is stored, line 1115 *)
NextDecodeIdxMut(i) == i + 2
NextDecodeIdx(i) == i + 1

DecodeBatch ==
    /\ pc = "p3"
    /\ batch_idx < Len(all_upscaled_latents)
    /\ ~IsNone(At(all_upscaled_latents, batch_idx))
    /\ decode_idx < Len(batch_samples)
    /\ batch_samples' =
          Put(batch_samples, decode_idx,
              Some(to_cpu(vae_decode(Val(At(all_upscaled_latents, batch_idx))))))
    /\ all_upscaled_latents' =
          Put(all_upscaled_latents, batch_idx,
              ConsumedUpscaled(At(all_upscaled_latents, batch_idx)))
    /\ decode_idx' = NextDecodeIdx(decode_idx)
    /\ batch_idx' = batch_idx + 1
    /\ UNCHANGED <<config, present, all_latents, all_ori_lengths,
                   all_transformed_videos, final_video, text_embeds, models,
                   pc, calls, encode_idx, upscale_idx, current_frame_idx,
                   encode_call>>
    /\ UNCHANGED rgba

(* runner.vae_decode raises (or the store falls outside batch_samples) *)
DecodeFault ==
    /\ pc = "p3"
    /\ batch_idx < Len(all_upscaled_latents)
    /\ ~IsNone(At(all_upscaled_latents, batch_idx))
    /\ DecodeRaise("RuntimeError")

DecodeReturn ==
    /\ pc = "p3"
    /\ batch_idx >= Len(all_upscaled_latents)
    /\ DecodeRaise("returned")

Phase3 ==
    \/ DecodeInvalid \/ DecodeStart \/ DecodeStartFault \/ DecodeSkip
    \/ DecodeInterrupt \/ DecodeBatch \/ DecodeFault \/ DecodeReturn

(* --------------------- Phase 4: postprocess_all_batches ---------------- *)
(* wavelet_reconstruction on a content of n frames and a style of m frames:*)
(* the spatial resize keeps the frame counts, and content_high_freq +      *)
(* style_low_freq broadcasts along the frame axis; 0 stands for the        *)
(* RuntimeError of two sizes that do not broadcast                         *)
wavelet_frames(n, m) ==
    IF n = m THEN n ELSE IF n = 1 THEN m ELSE IF m = 1 THEN n ELSE 0

(* a frame of final_video that torch.empty left unwritten *)
Unwritten == [slot |-> 0 - 1, src |-> 0 - 1, k |-> 0]

(* locals of one loop iteration, lines 1251-1349 *)
PostSample == Val(At(batch_samples, batch_idx))
video_idx == Min(batch_idx, Len(all_ori_lengths) - 1)
PostOri == At(all_ori_lengths, video_idx)
(* if ori_length < sample.shape[0]: sample = sample[:ori_length] *)
TrimMut(ori_length, n) == n
Trim(ori_length, n) == IF ori_length < n THEN ori_length ELSE n
PostTrimmed == Trim(Val(PostOri), PostSample.n)
(* color_correction != "none" and ctx.get('all_transformed_videos') is not *)
(* None                                                                    *)
PostColorBranch ==
    /\ color_correction # "none"
    /\ "all_transformed_videos" \in present
(* lines 1269-1274: the alpha plane is split off a four-channel sample     *)
PostSplitsAlpha == PostColorBranch /\ is_rgba /\ PostSample.c = 4
PostCorrects ==
    /\ color_correction # "none"
    /\ "all_transformed_videos" \in present
    /\ video_idx < Len(all_transformed_videos)
    /\ ~IsNone(At(all_transformed_videos, video_idx))
(* lines 1314-1317: the alpha plane is concatenated back inside the block  *)
(* that applies the correction                                             *)
ReattachMut(split, corrects) == FALSE
Reattach(split, corrects) == split /\ corrects
(* the sample as it leaves the color-correction step *)
PostCorrected ==
    IF PostSplitsAlpha /\ ~Reattach(PostSplitsAlpha, PostCorrects)
    THEN [PostSample EXCEPT !.c = 3, !.alpha = None]
    ELSE PostSample
sample_channels == PostCorrected.c
batch_frames ==
    IF PostCorrects
    THEN wavelet_frames(PostTrimmed,
                        Len(Val(At(all_transformed_videos, video_idx)).frames))
    ELSE PostTrimmed

(* final_video[current_frame_idx:current_frame_idx + batch_frames] = sample*)
(* the slice is clamped to the tensor; the copy succeeds when the sample   *)
(* has as many frames as the slice, or one frame (broadcast)               *)
SliceLen(cur, n, T) == Max(0, Min(T, cur + n) - Min(T, cur))
WriteFits(cur, n, T) == SliceLen(cur, n, T) = n \/ n = 1
(* current_frame_idx += batch_frames follows the write *)
CursorAfterWriteMut(cur, n, fits) == cur + n
CursorAfterWrite(cur, n, fits) == IF fits THEN cur + n ELSE cur

(* C of torch.empty((total_frames, H, W, C)) is the channel count of the   *)
(* first sample written; a later sample of another channel count cannot be *)
(* copied into the slice                                                   *)
AllocatedChannelsMut(c) == 3
AllocatedChannels(c) == IF IsNone(final_video) THEN c ELSE final_channels
ChannelsFit(c) == AllocatedChannels(c) = c

(* torch.empty((total_frames, H, W, C)) on the first write *)
AllocatedFramesMut(T) == T + 1
AllocatedFrames(T) == T
PostAllocated ==
    IF IsNone(final_video)
    THEN [k \in 1..AllocatedFrames(total_frames) |-> Unwritten]
    ELSE Val(final_video)

PostWritten ==
    LET fv == PostAllocated
        cur == current_frame_idx
        len == SliceLen(cur, batch_frames, Len(fv))
    IN [k \in 1..Len(fv) |->
          IF k > cur /\ k <= cur + len
          THEN [slot |-> batch_idx, src |-> PostSample.src,
                k |-> IF batch_frames = 1 THEN 1 ELSE k - cur]
          ELSE fv[k]]

(* which statement of the iteration raises, if any *)
PostOutcome ==
    IF IsNone(PostOri) THEN "TypeError"
    ELSE IF batch_frames = 0 THEN "ColorError"
    ELSE IF ~WriteFits(current_frame_idx, batch_frames, Len(PostAllocated))
         THEN "WriteError"
    ELSE IF ~ChannelsFit(sample_channels) THEN "WriteError"
    ELSE "ok"

(* finally: batch_samples, the storage lists and all_ori_lengths leave ctx *)
PostFinally ==
    present' = present \ ({"batch_samples", "all_ori_lengths"}
                 \cup (IF all_latents # <<>> THEN {"all_latents"} ELSE {})
                 \cup (IF all_transformed_videos # <<>>
                       THEN {"all_transformed_videos"} ELSE {})
                 \cup (IF all_alpha_channels # <<>>
                       THEN {"all_alpha_channels"} ELSE {})
                 \cup (IF all_input_rgb # <<>>
                       THEN {"all_input_rgb"} ELSE {}))

PostInvalid ==
    /\ pc = "idle" /\ NextPhase = 4
    /\ \/ "batch_samples" \notin present
       \/ batch_samples = <<>>
    /\ Ended("ValueError")
    /\ UNCHANGED <<config, slots, models, batch_idx, encode_idx, upscale_idx,
                   decode_idx, current_frame_idx, encode_call>>
    /\ UNCHANGED rgba

(* lines 1193-1237, the alpha step that precedes the try block.  The scan  *)
(* loop over the batches holds only the three `continue` tests; the call   *)
(* of the operator and the two releases follow the loop, so they run once, *)
(* untested, with the index the loop ended on                              *)
AlphaPath ==
    /\ is_rgba
    /\ "all_alpha_channels" \in present
    /\ "all_input_rgb" \in present
alpha_idx == Len(batch_samples) - 1
AlphaIndexed ==
    alpha_idx < Len(all_alpha_channels) /\ alpha_idx < Len(all_input_rgb)
AlphaOperands ==
    [idx |-> alpha_idx,
     rgb_samples |-> At(batch_samples, alpha_idx),
     alpha_original |-> At(all_alpha_channels, alpha_idx),
     rgb_original |-> At(all_input_rgb, alpha_idx)]
(* the operator works on a sample and the two planes; it raises on a null  *)
AlphaOk ==
    /\ AlphaIndexed
    /\ ~IsNone(AlphaOperands.rgb_samples)
    /\ ~IsNone(AlphaOperands.alpha_original)
    /\ ~IsNone(AlphaOperands.rgb_original)
AlphaStep ==
    IF AlphaPath
    THEN /\ alpha_call' = Some(AlphaOperands)
         /\ \E device \in {"cpu", "accel"} :
               batch_samples' =
                  Put(batch_samples, alpha_idx,
                      Some(process_alpha_for_batch(
                             Val(AlphaOperands.rgb_samples),
                             Val(AlphaOperands.alpha_original),
                             Val(AlphaOperands.rgb_original), device)))
         /\ all_alpha_channels' = Put(all_alpha_channels, alpha_idx, None)
         /\ all_input_rgb' = Put(all_input_rgb, alpha_idx, None)
    ELSE UNCHANGED <<alpha_call, batch_samples, all_alpha_channels,
                     all_input_rgb>>

PostStart ==
    /\ pc = "idle" /\ NextPhase = 4
    /\ "batch_samples" \in present /\ batch_samples # <<>>
    /\ total_frames # 0
    /\ AlphaPath => AlphaOk
    /\ AlphaStep
    /\ final_video' = None
    /\ final_channels' = 0
    /\ current_frame_idx' = 0
    /\ batch_idx' = 0
    /\ pc' = "p4"
    /\ UNCHANGED <<config, present, all_latents, all_ori_lengths,
                   all_transformed_videos, all_upscaled_latents,
                   text_embeds, models, calls, encode_idx, upscale_idx,
                   decode_idx, encode_call, is_rgba>>

(* the alpha step raises: an index past the plane lists, or the operator   *)
(* called on a null.  The try block has not been entered, so the finally   *)
(* clause does not run                                                     *)
PostAlphaFault ==
    /\ pc = "idle" /\ NextPhase = 4
    /\ "batch_samples" \in present /\ batch_samples # <<>>
    /\ total_frames # 0
    /\ AlphaPath /\ ~AlphaOk
    /\ alpha_call' = IF AlphaIndexed THEN Some(AlphaOperands) ELSE alpha_call
    /\ final_video' = None
    /\ final_channels' = 0
    /\ Ended("RuntimeError")
    /\ UNCHANGED <<config, present, all_latents, all_ori_lengths,
                   all_transformed_videos, all_upscaled_latents, batch_samples,
                   text_embeds, models, batch_idx, encode_idx, upscale_idx,
                   decode_idx, current_frame_idx, encode_call, is_rgba,
                   all_alpha_channels, all_input_rgb>>

PostSkip ==
    /\ pc = "p4"
    /\ batch_idx < Len(batch_samples)
    /\ IsNone(At(batch_samples, batch_idx))
    /\ batch_idx' = batch_idx + 1
    /\ UNCHANGED <<config, slots, models, pc, calls, encode_idx, upscale_idx,
                   decode_idx, current_frame_idx, encode_call>>
    /\ UNCHANGED rgba

PostRaise(outcome) ==
    /\ PostFinally
    /\ Ended(outcome)
    /\ UNCHANGED <<config, all_latents, all_upscaled_latents, batch_samples,
                   text_embeds, models, batch_idx, encode_idx, upscale_idx,
                   decode_idx, encode_call, is_rgba, all_alpha_channels,
                   all_input_rgb, alpha_call>>

PostInterrupt ==
    /\ pc = "p4"
    /\ batch_idx < Len(batch_samples)
    /\ ~IsNone(At(batch_samples, batch_idx))
    /\ PostRaise("Interrupt")
    /\ UNCHANGED <<all_ori_lengths, all_transformed_videos, final_video,
                   current_frame_idx, final_channels>>

(* lines 1311 and 1324: the style and the original length are released *)
PostRelease ==
    /\ all_transformed_videos' =
          IF PostCorrects THEN Put(all_transformed_videos, video_idx, None)
          ELSE all_transformed_videos
    /\ all_ori_lengths' = Put(all_ori_lengths, video_idx, None)

(* one complete loop iteration: trim, correct, write, release *)
PostBatch ==
    /\ pc = "p4"
    /\ batch_idx < Len(batch_samples)
    /\ ~IsNone(At(batch_samples, batch_idx))
    /\ PostOutcome = "ok"
    /\ PostRelease
    /\ final_video' = Some(PostWritten)
    /\ final_channels' = AllocatedChannels(sample_channels)
    /\ current_frame_idx' =
          CursorAfterWrite(current_frame_idx, batch_frames, TRUE)
    /\ batch_samples' = Put(batch_samples, batch_idx, None)
    /\ batch_idx' = batch_idx + 1
    /\ UNCHANGED <<config, present, all_latents, all_upscaled_latents,
                   text_embeds, models, pc, calls, encode_idx, upscale_idx,
                   decode_idx, encode_call, is_rgba, all_alpha_channels,
                   all_input_rgb, alpha_call>>

(* the comparison with a null length or the color correction raises:       *)
(* nothing of the iteration has been stored yet                            *)
PostColorFault ==
    /\ pc = "p4"
    /\ batch_idx < Len(batch_samples)
    /\ ~IsNone(At(batch_samples, batch_idx))
    /\ PostOutcome \in {"TypeError", "ColorError"}
    /\ PostRaise("RuntimeError")
    /\ UNCHANGED <<all_ori_lengths, all_transformed_videos, final_video,
                   current_frame_idx, final_channels>>

(* the write into final_video raises: the releases and the allocation      *)
(* have happened, the cursor has not advanced                              *)
PostWriteFault ==
    /\ pc = "p4"
    /\ batch_idx < Len(batch_samples)
    /\ ~IsNone(At(batch_samples, batch_idx))
    /\ PostOutcome = "WriteError"
    /\ PostRelease
    /\ final_video' = Some(PostAllocated)
    /\ final_channels' = AllocatedChannels(sample_channels)
    /\ current_frame_idx' =
          CursorAfterWrite(current_frame_idx, batch_frames, FALSE)
    /\ PostRaise("RuntimeError")

(* lines 1378-1392: a cursor that differs from total_frames is only logged *)
PostReturnMut ==
    /\ pc = "p4"
    /\ batch_idx >= Len(batch_samples)
    /\ final_video' = IF IsNone(final_video) THEN Some(<<>>) ELSE final_video
    /\ PostRaise(IF current_frame_idx # total_frames
                 THEN "RuntimeError" ELSE "returned")
    /\ UNCHANGED <<all_ori_lengths, all_transformed_videos, current_frame_idx,
                   final_channels>>
(* loop exhausted; an unallocated final_video becomes torch.empty((0,0,0,0)) *)
PostReturn ==
    /\ pc = "p4"
    /\ batch_idx >= Len(batch_samples)
    /\ final_video' = IF IsNone(final_video) THEN Some(<<>>) ELSE final_video
    /\ PostRaise("returned")
    /\ UNCHANGED <<all_ori_lengths, all_transformed_videos, current_frame_idx,
                   final_channels>>

Phase4 ==
    \/ PostInvalid \/ PostStart \/ PostAlphaFault \/ PostSkip
    \/ PostInterrupt \/ PostBatch
    \/ PostColorFault \/ PostWriteFault \/ PostReturn

Next == Phase1 \/ Phase2 \/ Phase3 \/ Phase4
Spec == Init /\ [][Next]_vars

(* ----------------- a caller that invokes Phase 2 again ----------------- *)
(* The phases are functions of the context; nothing keeps a caller from    *)
(* calling upscale_all_batches again on the context its last call left,    *)
(* whatever way that call ended.  The ended call is forgotten, so that the *)
(* next invocation is one of Phase 2 again.                                *)
UpscaleAgain ==
    /\ pc = "idle" /\ Len(calls) = 2
    /\ calls' = SubSeq(calls, 1, 1)
    /\ UNCHANGED <<config, slots, models, pc, batch_idx, encode_idx,
                   upscale_idx, decode_idx, current_frame_idx, encode_call>>
    /\ UNCHANGED rgba
ReinvokeNext == Next \/ UpscaleAgain
ReinvokeSpec == Init /\ [][ReinvokeNext]_vars

(* =================== functions specified on their own ================== *)
(* the inputs of a run, fixed where a function below does not read them *)
OneClip ==
    /\ total_frames = 1
    /\ batch_size = 1
    /\ temporal_overlap = 0
    /\ preserve_vram = FALSE
    /\ color_correction = "none"
    /\ input_channels = 3
    /\ vae_placement = "cpu"
    /\ dit_placement = "cpu"

(* ------------------- _ensure_precision_initialized --------------------- *)
MaxCalls == 2
DTypes == {"float8_e4m3fn", "float8_e5m2", "float16", "bfloat16", "float32"}
(* next(model.parameters()).dtype: the dtype of the weights, or nothing    *)
(* when the inspection raises (no model, no parameters)                    *)
Observed == {None} \cup {Some(d) : d \in DTypes}

(* the three branches on dit_dtype, lines 320-328 *)
PrecisionForMut(dit) == IF dit = "float16" THEN "float16" ELSE "bfloat16"
PrecisionFor(dit) ==
    IF dit \in {"float8_e4m3fn", "float8_e5m2"} THEN "bfloat16"
    ELSE IF dit = "float16" THEN "bfloat16"
    ELSE "bfloat16"

(* returns at once when ctx['compute_dtype'] is set; the except clause     *)
(* stores the same defaults                                                *)
ensure_precision_initialized(ctx_compute, ctx_autocast, dit, vae) ==
    IF ~IsNone(ctx_compute)
    THEN [compute_dtype |-> ctx_compute, autocast_dtype |-> ctx_autocast]
    ELSE IF IsNone(dit) \/ IsNone(vae)
    THEN [compute_dtype |-> Some("bfloat16"),
          autocast_dtype |-> Some("bfloat16")]
    ELSE [compute_dtype |-> Some(PrecisionFor(Val(dit))),
          autocast_dtype |-> Some(PrecisionFor(Val(dit)))]

(* one call of the detector, as each of phases 1 to 3 makes on entry *)
EnsurePrecision ==
    /\ precision_calls < MaxCalls
    /\ LET r == ensure_precision_initialized(compute_dtype, autocast_dtype,
                                             dit_dtype, vae_dtype)
       IN /\ compute_dtype' = r.compute_dtype
          /\ autocast_dtype' = r.autocast_dtype
    /\ precision_calls' = precision_calls + 1
    /\ UNCHANGED <<pipeline, dit_dtype, vae_dtype>>
    /\ UNCHANGED <<planner, color, histogram, hue, wavelet>>

(* the runner holds other weights by the time of a later call *)
ReloadModels ==
    /\ \E d \in Observed, v \in Observed :
          /\ dit_dtype' = d
          /\ vae_dtype' = v
    /\ UNCHANGED <<pipeline, compute_dtype, autocast_dtype, precision_calls>>
    /\ UNCHANGED <<planner, color, histogram, hue, wavelet>>

(* prepare_generation_context, lines 269-270: both fields start as None *)
PrecisionInit ==
    /\ OneClip
    /\ FreshContext
    /\ dit_dtype \in Observed
    /\ vae_dtype \in Observed
    /\ compute_dtype = None
    /\ autocast_dtype = None
    /\ precision_calls = 0
    /\ PlannerIdle /\ ColorIdle /\ HistogramIdle /\ HueIdle /\ WaveletIdle
PrecisionNext == EnsurePrecision \/ ReloadModels
PrecisionSpec == PrecisionInit /\ [][PrecisionNext]_vars

(* ------------------- calculate_optimal_batch_params -------------------- *)
(* if step <= 0: step = batch_size; temporal_overlap = 0 *)
StepOrBatchMut(raw, bs) == IF raw < 0 THEN bs ELSE raw
StepOrBatch(raw, bs) == IF raw <= 0 THEN bs ELSE raw
ReportedOverlap(raw, ov) == IF raw <= 0 THEN 0 ELSE ov

(* valid_sizes and best_batch, lines 168-171 *)
valid_sizes(T) == {i \in 1..T : i % 4 = 1}
best_batch(T) ==
    IF valid_sizes(T) # {}
    THEN CHOOSE k \in valid_sizes(T) : \A i \in valid_sizes(T) : i <= k
    ELSE 1

(* lines 181-184: the next 4n+1 target of a batch of f frames *)
PlanTargetMut(f) == ((f - 1) \div 4 + 1) * 4 + 1
PlanTarget(f) ==
    IF f % 4 = 1 THEN f ELSE ((f - 1) \div 4 + 1) * 4 + 1

(* the while loop of lines 177-187, from current_frame on *)
RECURSIVE PaddingFrom(_, _, _, _)
PaddingFrom(current_frame, T, bs, st) ==
    IF current_frame >= T THEN 0
    ELSE LET frames_in_batch == Min(bs, T - current_frame)
         IN (PlanTarget(frames_in_batch) - frames_in_batch)
            + PaddingFrom(current_frame + (IF st > 0 THEN st ELSE bs),
                          T, bs, st)

calculate_optimal_batch_params(T, bs, ov) ==
    LET st == StepOrBatch(bs - ov, bs)
        waste == PaddingFrom(0, T, bs, st)
    IN [step |-> st,
        temporal_overlap |-> ReportedOverlap(bs - ov, ov),
        best_batch |-> best_batch(T),
        padding_waste |-> waste,
        is_optimal |-> (waste = 0)]

(* line 567: Phase 1 calls the planner once the frame count is validated *)
PlanBatches ==
    /\ IsNone(batch_params)
    /\ batch_params' =
          Some(calculate_optimal_batch_params(total_frames, batch_size,
                                              temporal_overlap))
    /\ UNCHANGED <<pipeline, precision, color, histogram, hue, wavelet>>

PlannerInit ==
    /\ total_frames \in 1..MaxFrames
    /\ batch_size \in 1..MaxBatch
    /\ temporal_overlap \in 0..MaxOverlap
    /\ preserve_vram = FALSE
    /\ color_correction = "none"
    /\ input_channels = 3
    /\ vae_placement = "cpu"
    /\ dit_placement = "cpu"
    /\ FreshContext
    /\ PlannerIdle
    /\ PrecisionIdle /\ ColorIdle /\ HistogramIdle /\ HueIdle
    /\ WaveletIdle
PlannerNext == PlanBatches
PlannerSpec == PlannerInit /\ [][PlannerNext]_vars

(* ---------------- color correction: shapes and dtypes ------------------ *)
(* A tensor is its shape (B, C, H, W) and its dtype.  What a method        *)
(* returns is recorded with the dtype its arithmetic ran in and the shape  *)
(* of the style it worked on.                                              *)
MaxClip == 2
MaxSide == 2
Methods == {"adain", "wavelet", "lab", "hsv", "wavelet_adaptive"}
FloatTypes == {"float16", "bfloat16", "float32"}
Tensors ==
    [shape : {<<b, 3, h, w>> : b \in 1..MaxClip, h \in 1..MaxSide,
                               w \in 1..MaxSide},
     dtype : FloatTypes]
Spatial(t) == <<t.shape[3], t.shape[4]>>
Failed == [ok |-> FALSE, shape |-> <<>>, dtype |-> "", arith |-> "",
           style_shape |-> <<>>]

(* torch's result type of an operation on two floating tensors *)
promote(a, b) == IF a = b THEN a ELSE "float32"
(* two sizes broadcast when they are equal or one of them is 1 *)
Broadcasts(x, y) == x = y \/ x = 1 \/ y = 1
BroadcastShape(x, y) == [k \in 1..4 |-> Max(x[k], y[k])]
BroadcastsShape(x, y) == \A k \in 1..4 : Broadcasts(x[k], y[k])

(* bilinear resize to the given spatial size; batch, channels and dtype    *)
(* stay                                                                    *)
safe_interpolate_operation(t, size) ==
    [t EXCEPT !.shape = <<t.shape[1], t.shape[2], size[1], size[2]>>]
(* tensor.float() *)
ensure_float32_precision(t) == [t EXCEPT !.dtype = "float32"]
(* result.to(original_dtype), lines 471, 691, 781 *)
RestoreDtypeMut(dtype, original_dtype) == dtype
RestoreDtype(dtype, original_dtype) == original_dtype

(* if content_feat.shape != style_feat.shape: resize style to              *)
(* content_feat.shape[-2:]                                                 *)
NeedsResizeMut(content, style) == FALSE
NeedsResize(content, style) == content.shape # style.shape
Resized(content, style) ==
    IF NeedsResize(content, style)
    THEN safe_interpolate_operation(style, Spatial(content))
    ELSE style

(* lines 94-116: the per-channel mean and std of style, of shape           *)
(* (B, C, 1, 1), are expanded to content's size; no resize, no cast        *)
adaptive_instance_normalization(content, style) ==
    LET stats == <<style.shape[1], style.shape[2], 1, 1>>
        fits == \A k \in 1..4 :
                   stats[k] = content.shape[k] \/ stats[k] = 1
    IN IF ~fits THEN Failed
       ELSE [ok |-> TRUE, shape |-> content.shape,
             dtype |-> promote(content.dtype, style.dtype),
             arith |-> promote(content.dtype, style.dtype),
             style_shape |-> style.shape]

(* lines 184-243: resize, decompose both, content_high_freq +              *)
(* style_low_freq after the second (safety) resize, clamp                  *)
wavelet_reconstruction(content, style) ==
    LET style1 == Resized(content, style)
        style_low == IF content.shape # style1.shape
                     THEN safe_interpolate_operation(style1, Spatial(content))
                     ELSE style1
    IN IF ~BroadcastsShape(content.shape, style_low.shape) THEN Failed
       ELSE [ok |-> TRUE,
             shape |-> BroadcastShape(content.shape, style_low.shape),
             dtype |-> promote(content.dtype, style.dtype),
             arith |-> promote(content.dtype, style.dtype),
             style_shape |-> style1.shape]

(* lines 246-475: resize, float32, LAB histogram matching channel by       *)
(* channel (defined for unequal pixel counts), back to the original dtype  *)
lab_color_transfer(content, style) ==
    LET style1 == Resized(content, style)
        content32 == ensure_float32_precision(content)
        style32 == ensure_float32_precision(style1)
    IN IF content.shape[2] # 3 \/ style.shape[2] # 3 THEN Failed
       ELSE [ok |-> TRUE, shape |-> content.shape,
             dtype |-> RestoreDtype(content32.dtype, content.dtype),
             arith |-> promote(content32.dtype, style32.dtype),
             style_shape |-> style1.shape]

(* lines 478-695: resize, float32, saturation matching per hue bin, back   *)
(* to the original dtype                                                   *)
hsv_saturation_histogram_match(content, style) ==
    LET style1 == Resized(content, style)
        content32 == ensure_float32_precision(content)
        style32 == ensure_float32_precision(style1)
    IN IF content.shape[2] # 3 \/ style.shape[2] # 3 THEN Failed
       ELSE [ok |-> TRUE, shape |-> content.shape,
             dtype |-> RestoreDtype(content32.dtype, content.dtype),
             arith |-> promote(content32.dtype, style32.dtype),
             style_shape |-> style1.shape]

(* lines 698-787: resize, float32, wavelet and hsv on the promoted pair,   *)
(* blended by a weight made from the two saturation maps                   *)
wavelet_adaptive_color_correction(content, style) ==
    LET style1 == Resized(content, style)
        content32 == ensure_float32_precision(content)
        style32 == ensure_float32_precision(style1)
        wavelet_result == wavelet_reconstruction(content32, style32)
        hsv_result == hsv_saturation_histogram_match(content32, style32)
        sat(t) == <<t.shape[1], 1, t.shape[3], t.shape[4]>>
    IN IF ~wavelet_result.ok \/ ~hsv_result.ok THEN Failed
       ELSE IF ~BroadcastsShape(sat(content32), sat(style32)) THEN Failed
       ELSE [ok |-> TRUE,
             shape |-> BroadcastShape(
                          BroadcastShape(wavelet_result.shape,
                                         BroadcastShape(sat(content32),
                                                        sat(style32))),
                          hsv_result.shape),
             dtype |-> RestoreDtype(promote(wavelet_result.dtype,
                                            hsv_result.dtype),
                                    content.dtype),
             arith |-> promote(wavelet_result.arith, hsv_result.arith),
             style_shape |-> style1.shape]

(* generation.py, lines 1290-1304: dispatch on the method name *)
ColorCorrect(m, content, style) ==
    IF m = "lab" THEN lab_color_transfer(content, style)
    ELSE IF m = "wavelet_adaptive"
         THEN wavelet_adaptive_color_correction(content, style)
    ELSE IF m = "wavelet" THEN wavelet_reconstruction(content, style)
    ELSE IF m = "hsv" THEN hsv_saturation_histogram_match(content, style)
    ELSE adaptive_instance_normalization(content, style)

ApplyColor ==
    /\ IsNone(corrected)
    /\ corrected' = Some(ColorCorrect(Val(method), Val(content_feat),
                                      Val(style_feat)))
    /\ UNCHANGED <<pipeline, precision, planner, histogram, hue, wavelet>>
    /\ UNCHANGED <<method, content_feat, style_feat>>

ColorInit ==
    /\ OneClip
    /\ FreshContext
    /\ method \in {Some(m) : m \in Methods}
    /\ content_feat \in {Some(t) : t \in Tensors}
    /\ style_feat \in {Some(t) : t \in Tensors}
    /\ corrected = None
    /\ PrecisionIdle /\ PlannerIdle /\ HistogramIdle /\ HueIdle
    /\ WaveletIdle
ColorNext == ApplyColor
ColorSpec == ColorInit /\ [][ColorNext]_vars

(* ------------------------ 1-D histogram matching ----------------------- *)
MaxSource == 4
MaxReference == 7

(* float32 values between 0 and a few units, held as multiples of 2^-26.   *)
(* A float32 has 24 significant bits: from 2^24 multiples on, only every   *)
(* second, fourth, ... multiple is a float32.  The definitions are exact   *)
(* for n_source <= 9 and n_reference <= 32.                                *)
One == 67108864
RECURSIVE Ulp(_)
Ulp(v) == IF v < 16777216 THEN 1 ELSE 2 * Ulp(v \div 2)
(* num / den rounded to the nearest multiple of u, ties to even *)
RoundToEven(num, den, u) ==
    LET q == num \div (den * u)
        r == num - q * den * u
    IN IF 2 * r < den * u THEN q * u
       ELSE IF 2 * r > den * u THEN (q + 1) * u
       ELSE IF q % 2 = 0 THEN q * u ELSE (q + 1) * u
F32(v) == RoundToEven(v, 1, Ulp(v))
F32Div(num, den) == RoundToEven(num, den, Ulp(num \div den))

(* torch.linspace(0, 1, n)[r]: step = 1 / (n - 1); the first half counts   *)
(* up from 0, the second half counts down from 1                           *)
linspace(n, r) ==
    IF n = 1 THEN 0
    ELSE LET st == F32Div(One, n - 1)
         IN IF r < n \div 2
            THEN F32(st * r)
            ELSE F32(One - F32(st * (n - r - 1)))

(* ref_indices = (source_quantiles * (n_reference - 1)).long(), clamped;   *)
(* the product is rounded on the quantile's significand q \div u, which    *)
(* rounds to the same float and keeps the intermediate within 32 bits     *)
ref_index(r, n_source, n_reference) ==
    LET q == linspace(n_source, r)
        u == Ulp(q)
    IN Max(0, Min(n_reference - 1,
                  F32((q \div u) * (n_reference - 1)) \div (One \div u)))

(* the values of torch.sort: the elements in nondecreasing order *)
SortedSeq(seq) ==
    LET n == Len(seq)
        below(v) == Cardinality({j \in 1..n : seq[j] < v})
        upto(v) == Cardinality({j \in 1..n : seq[j] <= v})
        values == {seq[j] : j \in 1..n}
    IN SubSeq([r \in 1..n |->
                 CHOOSE v \in values : below(v) < r /\ r <= upto(v)], 1, n)
(* the indices of torch.sort: the sort is not stable, so any permutation   *)
(* that puts the elements in nondecreasing order may come back             *)
Argsorts(seq) ==
    LET n == Len(seq)
    IN {p \in Permutations(1..n) :
          \A r \in 1..(n - 1) : seq[p[r]] <= seq[p[r + 1]]}

(* lines 596-618; matched_flat.scatter_(0, source_indices, matched_sorted) *)
histogram_matching_1d(src, ref, indices) ==
    LET n_source == Len(src)
        n_reference == Len(ref)
        reference_sorted == SortedSeq(ref)
        matched_sorted ==
           IF n_source = n_reference THEN reference_sorted
           ELSE [r \in 1..n_source |->
                   reference_sorted[ref_index(r - 1, n_source, n_reference)
                                    + 1]]
        position == SubSeq([i \in 1..n_source |->
                      CHOOSE r \in 1..n_source : indices[r] = i],
                   1, n_source)
    IN [i \in 1..n_source |-> matched_sorted[position[i]]]
(* lines 405-441 of lab_color_transfer: the same statements *)
histogram_matching_channel(src, ref, indices) ==
    histogram_matching_1d(src, ref, indices)

MatchChannel ==
    /\ IsNone(matched)
    /\ \E p \in Argsorts(Val(source)) :
          /\ source_indices' = Some(p)
          /\ matched' = Some(histogram_matching_channel(Val(source),
                                                        Val(reference), p))
    /\ UNCHANGED <<pipeline, precision, planner, color, hue, wavelet>>
    /\ UNCHANGED <<source, reference>>
Match1d ==
    /\ IsNone(matched)
    /\ \E p \in Argsorts(Val(source)) :
          /\ source_indices' = Some(p)
          /\ matched' = Some(histogram_matching_1d(Val(source),
                                                   Val(reference), p))
    /\ UNCHANGED <<pipeline, precision, planner, color, hue, wavelet>>
    /\ UNCHANGED <<source, reference>>

(* flattened planes of at least one element *)
SeqsUpTo(n, values) == UNION {[1..k -> values] : k \in 1..n}
HistogramInit ==
    /\ OneClip
    /\ FreshContext
    /\ source \in {Some(x) : x \in SeqsUpTo(MaxSource, {1, 2})}
    /\ reference \in {Some(x) : x \in SeqsUpTo(MaxReference, {10, 20})}
    /\ source_indices = None
    /\ matched = None
    /\ PrecisionIdle /\ PlannerIdle /\ ColorIdle /\ HueIdle /\ WaveletIdle
HistogramNext == MatchChannel \/ Match1d
HistogramSpec == HistogramInit /\ [][HistogramNext]_vars

(* ------------- hue-conditional saturation matching --------------------- *)
(* lines 620-663.  A hue is held as the twelfth of the hue circle it falls *)
(* in: h stands for the hues in [h / 12, (h + 1) / 12); a saturation is a  *)
(* level.  Planes are flattened.                                           *)
num_bins == 12
min_pixels == 100

(* the mask of bin b: bin 0 takes the hues below bin_end and those from    *)
(* 1.0 - bin_width on; every other bin takes [bin_start, bin_end)          *)
InBin(b, h) ==
    IF b = 0
    THEN (h >= 0 /\ h < b + 1) \/ h >= num_bins - 1
    ELSE h >= b /\ h < b + 1
Mask(b, hues) == {i \in 1..Len(hues) : InBin(b, hues[i])}
(* plane[mask]: the selected elements, in order *)
Selected(plane, mask) ==
    LET picked == SelectSeq([i \in 1..Len(plane) |-> i],
                            LAMBDA i : i \in mask)
    IN SubSeq([k \in 1..Len(picked) |-> plane[picked[k]]], 1, Len(picked))
(* if len(content_s_bin) > min_pixels and len(style_s_bin) > min_pixels *)
EnoughPixelsMut(n) == n >= min_pixels
EnoughPixels(n) == n > min_pixels
(* one of Argsorts(seq): equal elements stay in their order *)
StableArgsort(seq) ==
    LET n == Len(seq)
        rank(i) == Cardinality({j \in 1..n :
                       seq[j] < seq[i] \/ (seq[j] = seq[i] /\ j < i)}) + 1
        ranks == SubSeq([i \in 1..n |-> rank(i)], 1, n)
    IN SubSeq([r \in 1..n |-> CHOOSE i \in 1..n : ranks[i] = r], 1, n)
(* matched_s[content_mask] = matched_s_bin *)
Assigned(plane, mask, values) ==
    LET before(i) == Cardinality({j \in mask : j <= i})
    IN [i \in 1..Len(plane) |->
          IF i \in mask THEN values[before(i)] ELSE plane[i]]

content_mask == Mask(bin_idx, Val(content_h))
style_mask == Mask(bin_idx, Val(style_h))
content_s_bin == Selected(Val(content_s), content_mask)
style_s_bin == Selected(Val(style_s), style_mask)

(* matched_s = content_s.clone() *)
HueStart ==
    /\ IsNone(matched_s)
    /\ matched_s' = content_s
    /\ bin_idx' = 0
    /\ UNCHANGED <<pipeline, precision, planner, color, histogram,
                   wavelet>>
    /\ UNCHANGED <<content_h, content_s, style_h, style_s>>
(* one iteration of the loop over the hue bins *)
HueBin ==
    /\ ~IsNone(matched_s)
    /\ bin_idx < num_bins
    /\ matched_s' =
          IF /\ EnoughPixels(Cardinality(content_mask))
             /\ EnoughPixels(Cardinality(style_mask))
          THEN Some(Assigned(Val(matched_s), content_mask,
                             histogram_matching_1d(
                                content_s_bin, style_s_bin,
                                StableArgsort(content_s_bin))))
          ELSE matched_s
    /\ bin_idx' = bin_idx + 1
    /\ UNCHANGED <<pipeline, precision, planner, color, histogram,
                   wavelet>>
    /\ UNCHANGED <<content_h, content_s, style_h, style_s>>

(* planes of n pixels of one hue and saturation, followed by two pixels of *)
(* the opposite hue.  Where a bin holds enough pixels of both planes, its  *)
(* style saturations are all equal, so every argsort gives the same result *)
Plane(n, main, other) == [i \in 1..(n + 2) |-> IF i <= n THEN main ELSE other]
Opposite(h) == (h + 6) % num_bins
NearThreshold == {min_pixels - 1, min_pixels, min_pixels + 1}
HueInit ==
    /\ OneClip
    /\ FreshContext
    /\ \E cn \in NearThreshold, cb \in 0..(num_bins - 1) :
          /\ content_h = Some(Plane(cn, cb, Opposite(cb)))
          /\ content_s = Some(Plane(cn, 1, 3))
    /\ \E sn \in NearThreshold, sb \in 0..(num_bins - 1) :
          /\ style_h = Some(Plane(sn, sb, Opposite(sb)))
          /\ style_s = Some(Plane(sn, 2, 4))
    /\ matched_s = None
    /\ bin_idx = 0
    /\ PrecisionIdle /\ PlannerIdle /\ ColorIdle /\ HistogramIdle
    /\ WaveletIdle
HueNext == HueStart \/ HueBin
HueSpec == HueInit /\ [][HueNext]_vars

(* ------------------ wavelet reconstruction on values ------------------- *)
(* lines 119-243 on pixel values.  An image is one row of pixels (one      *)
(* frame, one channel, H = 1).  A value v stands for v / Scale; the inputs *)
(* are multiples of 2^-ValueBits in [-1, 1].  A blur divides the grid of   *)
(* its input by 4 at most, so every value met in `levels` blurs is a whole *)
(* number of 1 / Scale.                                                    *)
MaxWidth == 2
ValueBits == 3
levels == 5
RECURSIVE Pow(_, _)
Pow(b, e) == IF e = 0 THEN 1 ELSE b * Pow(b, e - 1)
Scale == Pow(2, ValueBits) * Pow(4, levels)
Abs(n) == IF n < 0 THEN 0 - n ELSE n

(* 2^p for the p significant bits of the floating-point formats: 8 for    *)
(* bfloat16, 11 for float16, 24 for float32                                *)
Significand(dtype) ==
    IF dtype = "bfloat16" THEN 256
    ELSE IF dtype = "float16" THEN 2048 ELSE 16777216
(* the spacing of the numbers of that format around a: 1 below `limit`,   *)
(* the power of two that holds the significand, doubling with every        *)
(* binade above it                                                         *)
RECURSIVE UlpOf(_, _)
UlpOf(a, limit) == IF a < limit THEN 1 ELSE 2 * UlpOf(a \div 2, limit)
(* the result of an operation whose exact value is n, in the given dtype:  *)
(* the nearest number of that many significant bits, ties to even          *)
Rounded(n, dtype) ==
    LET a == Abs(n)
        u == UlpOf(a, Significand(dtype))
        q == a \div u
        r == a - q * u
        m == IF 2 * r < u THEN q * u
             ELSE IF 2 * r > u THEN (q + 1) * u
             ELSE IF q % 2 = 0 THEN q * u ELSE (q + 1) * u
    IN IF n < 0 THEN 0 - m ELSE m

(* the 3x3 kernel of wavelet_blur, times 16 *)
kernel_vals == <<<<1, 2, 1>>, <<2, 4, 2>>, <<1, 2, 1>>>>
max_safe_radius(h, w) == Max(1, Min(h, w) \div 8)
(* replicate padding of `radius` on every side, then the grouped           *)
(* convolution of dilation `radius`; the three kernel rows read the one    *)
(* pixel row, the sum is rounded once                                      *)
wavelet_blur(image, radius, dtype) ==
    LET w == Len(image)
        rad == Min(radius, max_safe_radius(1, w))
        px(x) == image[Max(1, Min(w, x))]
        row(k, x) == k[1] * px(x - rad) + k[2] * px(x) + k[3] * px(x + rad)
        total(x) == row(kernel_vals[1], x) + row(kernel_vals[2], x)
                    + row(kernel_vals[3], x)
    IN SubSeq([x \in 1..w |-> Rounded(total(x) \div 16, dtype)], 1, w)

(* high_freq += (image - low_freq) *)
AccumulateMut(high_freq, image, low_freq, dtype) ==
    SubSeq([x \in 1..Len(image) |-> Rounded(image[x] - low_freq[x], dtype)],
           1, Len(image))
Accumulate(high_freq, image, low_freq, dtype) ==
    SubSeq([x \in 1..Len(image) |->
              Rounded(high_freq[x] + Rounded(image[x] - low_freq[x], dtype),
                      dtype)],
           1, Len(image))

(* the loop of wavelet_decomposition from level i on *)
RECURSIVE DecomposeFrom(_, _, _, _)
DecomposeFrom(i, image, high_freq, dtype) ==
    IF i = levels THEN [high_freq |-> high_freq, low_freq |-> image]
    ELSE LET low_freq == wavelet_blur(image, Pow(2, i), dtype)
         IN DecomposeFrom(i + 1, low_freq,
                          Accumulate(high_freq, image, low_freq, dtype),
                          dtype)
(* high_freq = torch.zeros_like(image); for i in range(levels) *)
wavelet_decomposition(image, dtype) ==
    DecomposeFrom(0, image, [x \in 1..Len(image) |-> 0], dtype)

(* lines 220-243 for two images of one shape: content's high frequencies   *)
(* plus style's low frequencies, clamped to [-1, 1]                        *)
Reconstructed(content, style, dtype) ==
    LET content_high_freq == wavelet_decomposition(content, dtype).high_freq
        style_low_freq == wavelet_decomposition(style, dtype).low_freq
    IN SubSeq([x \in 1..Len(content) |->
                 Max(0 - Scale,
                     Min(Scale, Rounded(content_high_freq[x]
                                        + style_low_freq[x], dtype)))],
              1, Len(content))

ApplyWavelet ==
    /\ IsNone(wave_result)
    /\ wave_result' = Some(Reconstructed(Val(wave_content), Val(wave_style),
                                         Val(wave_dtype)))
    /\ UNCHANGED <<pipeline, precision, planner, color, histogram, hue>>
    /\ UNCHANGED <<wave_content, wave_style, wave_dtype>>

(* 0 and the powers of two from 2^-ValueBits to 1, of either sign *)
PixelValues ==
    {0} \cup {Scale \div Pow(2, k) : k \in 0..ValueBits}
        \cup {0 - (Scale \div Pow(2, k)) : k \in 0..ValueBits}
Mirrored(image) == [x \in 1..Len(image) |-> image[Len(image) + 1 - x]]
(* the style is the content itself or its mirror image *)
WaveletInit ==
    /\ OneClip
    /\ FreshContext
    /\ wave_content \in {Some(x) : x \in SeqsUpTo(MaxWidth, PixelValues)}
    /\ wave_style \in {wave_content, Some(Mirrored(Val(wave_content)))}
    /\ wave_dtype \in {Some(d) : d \in FloatTypes}
    /\ wave_result = None
    /\ PrecisionIdle /\ PlannerIdle /\ ColorIdle /\ HistogramIdle /\ HueIdle
WaveletNext == ApplyWavelet
WaveletSpec == WaveletInit /\ [][WaveletNext]_vars

(* ============================= properties ============================== *)
Returned(n) == Len(calls) >= n /\ calls[n] = "returned"
AllReturned(n) == Len(calls) >= n /\ \A k \in 1..n : calls[k] = "returned"
FramesOfSlot(fv, b) == {j \in 1..Len(fv) : fv[j].slot = b}
OriSum ==
    SumSeq([k \in 1..Len(all_ori_lengths) |->
              IF IsNone(all_ori_lengths[k]) THEN 0 ELSE Val(all_ori_lengths[k])])

(* C1: every tensor handed to the VAE encoder in Phase 1 has a frame count *)
(* t with t mod 4 = 1.                                                     *)
C1_EncoderInputIs4nPlus1 ==
    ~IsNone(encode_call) => Len(Val(encode_call).transformed) % 4 = 1

C1_Witness ==
    /\ ~IsNone(encode_call)
    /\ Len(Val(encode_call).video) = 2
    /\ Len(Val(encode_call).transformed) = 5

C3_OriLengthsSumToTotal ==
    /\ (Len(calls) = 1 /\ Returned(1)) => OriSum = total_frames
    /\ AllReturned(4) => current_frame_idx = total_frames

(* C4: the Phase-4 write cursor never decreases and never exceeds          *)
(* total_frames.                                                           *)
C4_CursorMonotoneBounded ==
    [][/\ current_frame_idx' >= current_frame_idx
       /\ current_frame_idx' <= total_frames']_vars

C4_Witness ==
    /\ Len(calls) = 4 /\ calls[4] = "RuntimeError"
    /\ temporal_overlap > 0
    /\ current_frame_idx > 0
    /\ ~IsNone(final_video)
    /\ ~IsNone(At(batch_samples, batch_idx))
    /\ IsNone(At(all_ori_lengths, batch_idx))

(* C5: the iteration of Phase 4 that writes batch i puts at most           *)
(* ori_lengths[i] frames of it into final_video; of a decoded sample       *)
(* longer than ori_lengths[i] exactly its first ori_lengths[i] frames are  *)
(* written.                                                                *)
C5_AtMostOriLength ==
    [][(pc = "p4" /\ batch_samples' # batch_samples) =>
          LET ori == Val(At(all_ori_lengths, batch_idx))
              fv == Val(final_video')
              W == FramesOfSlot(fv, batch_idx)
          IN /\ Cardinality(W) <= ori
             /\ PostSample.n > ori => {fv[j].k : j \in W} = 1..ori]_vars

C5_Witness ==
    /\ pc = "p4"
    /\ ~IsNone(final_video)
    /\ Cardinality(FramesOfSlot(Val(final_video), 0)) = 2
    /\ IsNone(At(batch_samples, 0))

(* C6: a phase never processes a consumed entry: the iteration that stores *)
(* an upscaled latent takes a non-null latents[i] and leaves it null, the  *)
(* iteration that stores a decoded sample takes a non-null upscaled latent *)
(* and leaves it null, the iteration that writes to final_video takes a    *)
(* non-null sample and leaves it null, and an iteration that finds a null  *)
(* entry changes no slot.                                                  *)
C6_ConsumedOnce ==
    [][/\ (pc = "p2" /\ all_upscaled_latents' # all_upscaled_latents) =>
             /\ ~IsNone(At(all_latents, batch_idx))
             /\ IsNone(At(all_latents', batch_idx))
             /\ ~IsNone(At(all_upscaled_latents', upscale_idx))
       /\ (pc = "p3" /\ pc' = "p3" /\ batch_samples' # batch_samples) =>
             /\ ~IsNone(At(all_upscaled_latents, batch_idx))
             /\ IsNone(At(all_upscaled_latents', batch_idx))
             /\ ~IsNone(At(batch_samples', decode_idx))
       /\ (pc = "p4" /\ pc' = "p4" /\ final_video' # final_video) =>
             /\ ~IsNone(At(batch_samples, batch_idx))
             /\ IsNone(At(batch_samples', batch_idx))
       /\ (pc = "p2" /\ pc' = "p2" /\ IsNone(At(all_latents, batch_idx))) =>
             UNCHANGED slots
       /\ (pc = "p3" /\ pc' = "p3" /\ IsNone(At(all_upscaled_latents, batch_idx))) =>
             UNCHANGED slots
       /\ (pc = "p4" /\ pc' = "p4" /\ IsNone(At(batch_samples, batch_idx))) =>
             UNCHANGED slots]_vars

C6_Witness ==
    /\ pc = "p4" /\ batch_idx = 1
    /\ Len(batch_samples) >= 2
    /\ IsNone(At(batch_samples, 0))
    /\ ~IsNone(final_video)
    /\ \A k \in 1..Len(all_latents) : IsNone(all_latents[k])

(* start positions of the Phase-1 loop and the positions that yield a      *)
(* batch when the loop stops at the first position satisfying Stop         *)
Positions == {q \in 0..(total_frames - 1) : q % step = 0}
Yielding(Stop(_)) ==
    {q \in Positions : \A r \in Positions : r <= q => ~Stop(r)}
StopAtMost(q) == q > 0 /\ total_frames - q <= overlap
StopFewer(q) == q > 0 /\ total_frames - q < overlap
WindowOfOrdinal ==
    ~IsNone(encode_call) =>
        LET c == Val(encode_call)
        IN /\ c.start = c.idx * step
           /\ c.end = Min(c.idx * step + batch_size, total_frames)

(* C7 (as amended): the batch with ordinal i covers the window             *)
(* [i*step, min(i*step + batch_size, total_frames)), and for i > 0 the     *)
(* loop terminates at the first start position from which at most          *)
(* temporal_overlap frames remain; every earlier position yields a batch.  *)
C7_WindowsAndStop ==
    /\ WindowOfOrdinal
    /\ Returned(1) => encode_idx = Cardinality(Yielding(StopAtMost))

(* C7 (as stated): ... terminates at the first start position from which   *)
(* fewer frames remain than temporal_overlap.                              *)
C7_Original ==
    /\ WindowOfOrdinal
    /\ Returned(1) => encode_idx = Cardinality(Yielding(StopFewer))

C7_Witness ==
    /\ Returned(1)
    /\ overlap > 0
    /\ batch_idx < total_frames
    /\ total_frames - batch_idx = overlap
    /\ encode_idx >= 2

(* parts of C8 shared by the statement and its amendment *)
CeilDiv(a, b) == (a + b - 1) \div b
C8_Partition ==
    /\ ~IsNone(encode_call) =>
          LET c == Val(encode_call)
          IN /\ c.start = c.idx * batch_size
             /\ c.end = Min(c.start + batch_size, total_frames)
    /\ Returned(1) =>
          /\ encode_idx = CeilDiv(total_frames, batch_size)
          /\ Val(encode_call).end = total_frames
C8_Written ==
    AllReturned(4) =>
        /\ current_frame_idx = total_frames
        /\ \A b \in 0..(encode_idx - 1) :
              Cardinality(FramesOfSlot(Val(final_video), b)) =
                  Min(batch_size, total_frames - b * batch_size)
C8_Padded(c) == Len(c.transformed) # Len(c.video)

C9_FrameConforming ==
    ~IsNone(encode_call) =>
        LET v == Val(encode_call).video
            r == Val(encode_call).transformed
            t == Len(v)
        IN /\ t % 4 = 1 => r = v
           /\ t % 4 # 1 =>
                 /\ Len(r) = Target(t)
                 /\ SubSeq(r, 1, t) = v
                 /\ \A k \in (t + 1)..Len(r) : r[k] = v[t]
           /\ PaddingNeeded(t) = Target(t) - t

C9_Witness ==
    /\ ~IsNone(encode_call)
    /\ Len(Val(encode_call).video) = 4
    /\ Val(encode_call).start > 0
    /\ Len(Val(encode_call).transformed) = 5

(* C10: with preserve_vram, phases run in the order 1, 2, 3, 4, each       *)
(* returning or raising, the VAE and the DiT are never both on the         *)
(* accelerator.                                                            *)
C10_SingleModelResident ==
    preserve_vram => ~(vae_placement = "accel" /\ dit_placement = "accel")

C10_Witness ==
    /\ preserve_vram
    /\ pc = "p2"
    /\ dit_placement = "accel"
    /\ calls[1] = "Interrupt"

(* ---------------------- interrupts and failures ------------------------ *)
Interrupted(n) == pc = "idle" /\ Len(calls) = n /\ calls[n] = "Interrupt"
WrittenFrames ==
    IF IsNone(final_video) THEN 0
    ELSE Cardinality({j \in 1..Len(Val(final_video)) :
                        Val(final_video)[j] # Unwritten})

(* every batch of the running phase is either wholly stored or untouched *)
WholeBatches ==
    /\ pc = "p1" =>
          \A i \in 1..Len(all_latents) :
             /\ IsNone(all_latents[i]) <=> IsNone(all_ori_lengths[i])
             /\ color_correction # "none" =>
                   (IsNone(all_latents[i]) <=> IsNone(all_transformed_videos[i]))
             /\ "all_alpha_channels" \in present =>
                   /\ IsNone(all_latents[i]) <=> IsNone(all_alpha_channels[i])
                   /\ IsNone(all_latents[i]) <=> IsNone(all_input_rgb[i])
    /\ pc = "p2" =>
          CountValid(all_upscaled_latents) + CountValid(all_latents)
             = Len(all_upscaled_latents)
    /\ pc = "p3" =>
          /\ CountValid(batch_samples) = decode_idx
          /\ CountValid(batch_samples) + CountValid(all_upscaled_latents)
                = upscale_idx
    /\ pc = "p4" =>
          /\ WrittenFrames = current_frame_idx
          /\ \A j \in 1..Len(batch_samples) :
                j <= batch_idx => IsNone(batch_samples[j])

(* the step that ends a call with the interrupt stores nothing into a slot *)
(* array, into final_video or the cursor; Phase 3's finally alone drops    *)
(* the upscaled latents                                                    *)
InterruptStoresNothing ==
    /\ pc \in {"p1", "p2", "p3", "p4"}
    /\ WholeBatches
    /\ all_latents' = all_latents
    /\ all_ori_lengths' = all_ori_lengths
    /\ all_transformed_videos' = all_transformed_videos
    /\ all_alpha_channels' = all_alpha_channels
    /\ all_input_rgb' = all_input_rgb
    /\ batch_samples' = batch_samples
    /\ final_video' = final_video
    /\ current_frame_idx' = current_frame_idx
    /\ pc # "p3" => all_upscaled_latents' = all_upscaled_latents

(* the iteration at whose top the hook raised has a batch to process, and  *)
(* nothing has worked on that batch in this phase                          *)
InterruptBeforeAnyWork ==
    /\ pc = "p1" => ~BreakOff(batch_idx, total_frames, batch_size, overlap)
    /\ pc = "p4" => Val(At(batch_samples, batch_idx)).c = 3

(* C11: the interrupt hook raises only at the top of a main-loop iteration *)
(* of a running phase (in Phase 1 the iteration that breaks off the loop   *)
(* included, in Phase 4 after the alpha step that precedes the loop),      *)
(* before any work of that iteration: cancellation is observed only        *)
(* between batches, and after an interrupt every batch is wholly stored or *)
(* untouched.                                                              *)
C11_InterruptBetweenBatches ==
    [][calls' = Append(calls, "Interrupt") => InterruptStoresNothing]_vars

(* C11 as stated: the hook runs only at the top of a processed batch's     *)
(* iteration and before any work on that batch.                            *)
C11_Original ==
    [][calls' = Append(calls, "Interrupt") =>
         InterruptStoresNothing /\ InterruptBeforeAnyWork]_vars

C11_Witness ==
    /\ Interrupted(4)
    /\ ~IsNone(alpha_call)
    /\ current_frame_idx > 0

(* C12: when the hook raises at the top of the Phase-2 iteration for batch *)
(* k, the call ends with the interrupt, upscaled_latents[j] is populated   *)
(* exactly for j < k, and with preserve_vram the VAE and the DiT are both  *)
(* on host.                                                                *)
C12_UpscaleInterrupted ==
    Interrupted(2) =>
       /\ \A j \in 0..(Len(all_upscaled_latents) - 1) :
             ~IsNone(At(all_upscaled_latents, j)) <=> j < batch_idx
       /\ preserve_vram => vae_placement = "cpu" /\ dit_placement = "cpu"

C12_Witness ==
    /\ Interrupted(2)
    /\ preserve_vram
    /\ batch_idx = 2
    /\ Len(all_upscaled_latents) = 3

(* a list of the context that still holds a tensor *)
Held(key, lst) == key \in present /\ CountValid(lst) > 0
LastCall(outcome) ==
    pc = "idle" /\ calls # <<>> /\ calls[Len(calls)] = outcome

(* C13: when the hook raises inside a phase, the finally block has         *)
(* released every resource the pipeline owns before the caller sees the    *)
(* exception: no latent, upscaled latent or sample is held in the context  *)
(* and no model is left on the accelerator.                                *)
C13_InterruptReleasesAll ==
    LastCall("Interrupt") =>
       /\ ~Held("all_latents", all_latents)
       /\ ~Held("all_upscaled_latents", all_upscaled_latents)
       /\ ~Held("batch_samples", batch_samples)
       /\ vae_placement # "accel"
       /\ dit_placement # "accel"

(* a list of the context that holds a tensor residing on the accelerator *)
OnAccelerator(key, lst) ==
    key \in present /\
    \E i \in 1..Len(lst) : ~IsNone(lst[i]) /\ Val(lst[i]).dev = "accel"

(* C14: once a call that the interrupt hook ended has returned to its      *)
(* caller, no tensor referenced from the context resides on the            *)
(* accelerator: latents, upscaled latents, samples, transformed videos,    *)
(* alpha and RGB planes, text embeddings.                                  *)
C14_NothingOnAccelerator ==
    LastCall("Interrupt") =>
       /\ ~OnAccelerator("all_latents", all_latents)
       /\ ~OnAccelerator("all_upscaled_latents", all_upscaled_latents)
       /\ ~OnAccelerator("batch_samples", batch_samples)
       /\ ~OnAccelerator("all_transformed_videos", all_transformed_videos)
       /\ ~OnAccelerator("all_alpha_channels", all_alpha_channels)
       /\ ~OnAccelerator("all_input_rgb", all_input_rgb)
       /\ text_embeds # "accel"

C14_Witness ==
    /\ Interrupted(3)
    /\ Held("batch_samples", batch_samples)
    /\ Held("all_latents", all_latents)
    /\ Held("all_alpha_channels", all_alpha_channels)
    /\ Held("all_transformed_videos", all_transformed_videos)

(* the call of phase n has just ended and had passed input validation *)
ExitedPastValidation(n) ==
    pc = "idle" /\ Len(calls) = n /\ calls[n] # "ValueError"

(* C15: every exit of a phase that passed input validation has performed   *)
(* the phase's release steps: Phase 1 has offloaded the VAE (when          *)
(* preserve_vram), Phase 2 has cleaned the DiT and the text embeddings,    *)
(* Phase 3 has cleaned the VAE and dropped the upscaled latents, Phase 4   *)
(* has dropped the samples and the storage lists.                          *)
C15_EveryExitReleases ==
    /\ ExitedPastValidation(1) =>
          (preserve_vram => vae_placement # "accel")
    /\ ExitedPastValidation(2) =>
          text_embeds = "none" /\ dit_placement # "accel"
    /\ ExitedPastValidation(3) =>
          vae_placement # "accel" /\ "all_upscaled_latents" \notin present
    /\ ExitedPastValidation(4) =>
          /\ "batch_samples" \notin present
          /\ "all_ori_lengths" \notin present
          /\ ~Held("all_latents", all_latents)
          /\ ~Held("all_alpha_channels", all_alpha_channels)

(* the list a phase needs is missing from the context or empty *)
Missing(key, lst) == key \notin present \/ lst = <<>>
MissingPrerequisite ==
    /\ pc = "idle"
    /\ \/ NextPhase = 1 /\ total_frames = 0
       \/ NextPhase = 2 /\ Missing("all_latents", all_latents)
       \/ NextPhase = 3 /\ Missing("all_upscaled_latents", all_upscaled_latents)
       \/ NextPhase = 4 /\ Missing("batch_samples", batch_samples)
(* the list a phase needs holds no tensor *)
NoPrerequisite ==
    /\ pc = "idle"
    /\ \/ NextPhase = 1 /\ total_frames = 0
       \/ NextPhase = 2 /\ ~Held("all_latents", all_latents)
       \/ NextPhase = 3 /\ ~Held("all_upscaled_latents", all_upscaled_latents)
       \/ NextPhase = 4 /\ ~Held("batch_samples", batch_samples)
Rejected ==
    /\ calls' = Append(calls, "ValueError")
    /\ pc' = "idle"
    /\ UNCHANGED <<slots, models, rgba>>

HasAlphaData(i) ==
    /\ ~IsNone(At(batch_samples, i))
    /\ i < Len(all_alpha_channels)
    /\ ~IsNone(At(all_alpha_channels, i))

(* C18: for RGBA input, the alpha step that precedes the Phase-4 main loop *)
(* passes every batch that has a sample and alpha data through the alpha   *)
(* operator: the merged four-channel sample replaces samples[i], and       *)
(* alpha_channels[i] and input_rgb[i] are released.                        *)
C18_AlphaEveryBatch ==
    [][(pc = "idle" /\ pc' = "p4" /\ AlphaPath) =>
         \A i \in 0..(Len(batch_samples) - 1) :
            HasAlphaData(i) =>
               /\ Val(At(batch_samples', i)).c = 4
               /\ Val(At(batch_samples', i)).alpha =
                     Some(Val(At(all_alpha_channels, i)).src)
               /\ IsNone(At(all_alpha_channels', i))
               /\ IsNone(At(all_input_rgb', i))]_vars

(* C19: on the RGBA path the alpha operator is never called for a batch    *)
(* whose sample or alpha data is missing.                                  *)
C19_MissingAlphaSkipped ==
    ~IsNone(alpha_call) =>
       /\ ~IsNone(Val(alpha_call).rgb_samples)
       /\ ~IsNone(Val(alpha_call).alpha_original)

(* C20: in Phase 4 the color-correction step of an RGBA sample, with color *)
(* correction enabled, leaves the sample with four channels and with the   *)
(* alpha plane it had before the step.                                     *)
C20_ColorCorrectionKeepsAlpha ==
    (/\ pc = "p4"
     /\ batch_idx < Len(batch_samples)
     /\ ~IsNone(At(batch_samples, batch_idx))
     /\ color_correction # "none"
     /\ is_rgba /\ PostSample.c = 4) =>
       /\ PostCorrected.c = 4
       /\ PostCorrected.alpha = PostSample.alpha

C20_Witness ==
    /\ pc = "p4"
    /\ color_correction = "wavelet"
    /\ is_rgba
    /\ final_channels = 4
    /\ current_frame_idx = 5

(* C21: whenever Phase 4 has allocated final_video, its channel count is   *)
(* the channel count of the input (4 for RGBA, 3 for RGB), whatever the    *)
(* number of batches                                                       *)
C21_FinalVideoChannels ==
    final_channels # 0 => final_channels = input_channels

(* C22: when the Phase-4 loop completes with a write cursor that differs   *)
(* from total_frames, the call returns normally (the mismatch is only      *)
(* logged) and final_video is returned as written so far                   *)
C22_MismatchOnlyWarns ==
    [][(/\ pc = "p4"
        /\ batch_idx >= Len(batch_samples)
        /\ current_frame_idx # total_frames)
       => /\ calls' = Append(calls, "returned")
          /\ final_video' =
                IF IsNone(final_video) THEN Some(<<>>) ELSE final_video]_vars
C22_Witness ==
    /\ Len(calls) = 4 /\ calls[4] = "returned"
    /\ current_frame_idx > 0
    /\ current_frame_idx # total_frames
    /\ ~IsNone(final_video) /\ Len(Val(final_video)) = total_frames

StoresInOrder(lst, lstp) ==
    Len(lstp) = Len(lst) =>
       \A k \in 1..Len(lst) :
          (IsNone(lst[k]) /\ ~IsNone(lstp[k])) =>
             /\ \A j \in 1..(k - 1) : ~IsNone(lst[j])
             /\ \A j \in (k + 1)..Len(lst) : IsNone(lstp[j])
(* a Phase-4 step writes frames of the batch it is at, after the frames of *)
(* the batches before it                                                   *)
WritesInOrder(fv, fvp) ==
    (pc = "p4" /\ ~IsNone(fvp) /\ fvp # fv) =>
       /\ \A k \in 1..Len(Val(fvp)) : Val(fvp)[k].slot <= batch_idx
       /\ IsNone(fv) \/ \A k \in 1..Len(Val(fv)) : Val(fv)[k].slot < batch_idx
       /\ batch_idx' = batch_idx + 1 \/ pc' = "idle"

(* C24: within each phase the batches are processed in strictly ascending  *)
(* index order, one at a time: the result of batch i+1 is stored only      *)
(* after the result of batch i is in the context                           *)
C24_AscendingOneAtATime ==
    [][/\ StoresInOrder(all_latents, all_latents')
       /\ StoresInOrder(all_upscaled_latents, all_upscaled_latents')
       /\ StoresInOrder(batch_samples, batch_samples')
       /\ WritesInOrder(final_video, final_video')]_vars
C24_Witness ==
    /\ pc = "p3"
    /\ Len(batch_samples) >= 3
    /\ ~IsNone(batch_samples[3])

(* what the planner returned for the inputs of the run *)
Planned == Val(batch_params)

(* C25: for total_frames >= 1 and batch_size >= 1 the planner returns      *)
(* step = batch_size - temporal_overlap when that is positive, otherwise   *)
(* step = batch_size with the overlap reported as 0, so step is positive;  *)
(* and best_batch is the greatest k in [1, total_frames] with k mod 4 = 1  *)
C25_StepAndBestBatch ==
    ~IsNone(batch_params) =>
       /\ IF batch_size - temporal_overlap > 0
          THEN /\ Planned.step = batch_size - temporal_overlap
               /\ Planned.temporal_overlap = temporal_overlap
          ELSE /\ Planned.step = batch_size
               /\ Planned.temporal_overlap = 0
       /\ Planned.step > 0
       /\ Planned.best_batch \in 1..total_frames
       /\ Planned.best_batch % 4 = 1
       /\ \A k \in 1..total_frames : k % 4 = 1 => k <= Planned.best_batch
C25_Witness ==
    /\ ~IsNone(batch_params)
    /\ temporal_overlap >= batch_size
    /\ total_frames = 6
    /\ Planned.best_batch = 5

(* the smallest value of the form 4n+1 that is at least f *)
SmallestValid(f) ==
    CHOOSE m \in f..(f + 4) :
       m % 4 = 1 /\ \A j \in f..(m - 1) : j % 4 # 1
(* the positions 0, step, 2*step, ... below T *)
PlanPositions(T, st) == {p \in 0..(T - 1) : p % st = 0}
RECURSIVE SumWaste(_, _, _)
SumWaste(P, T, bs) ==
    IF P = {} THEN 0
    ELSE LET p == CHOOSE q \in P : TRUE
             f == Min(bs, T - p)
         IN (SmallestValid(f) - f) + SumWaste(P \ {p}, T, bs)

(* C26: padding_waste is the sum, over the positions 0, step, 2*step, ...  *)
(* below total_frames, of (smallest 4n+1 value >= f) - f with              *)
(* f = min(batch_size, total_frames - p); is_optimal is true exactly when  *)
(* padding_waste is 0                                                      *)
C26_PaddingWaste ==
    ~IsNone(batch_params) =>
       /\ Planned.padding_waste =
             SumWaste(PlanPositions(total_frames, Planned.step), total_frames,
                      batch_size)
       /\ Planned.is_optimal <=> (Planned.padding_waste = 0)
C26_Witness ==
    /\ ~IsNone(batch_params)
    /\ total_frames = 7 /\ batch_size = 5 /\ temporal_overlap = 2
    /\ Planned.padding_waste = 1
    /\ ~Planned.is_optimal

(* content and style of one batch and shape, apart from height and width,  *)
(* which differ                                                            *)
Content == Val(content_feat)
Style == Val(style_feat)
Corrected == Val(corrected)
SpatialMismatch ==
    /\ ~IsNone(corrected)
    /\ Content.shape[1] = Style.shape[1]
    /\ Content.shape[2] = Style.shape[2]
    /\ Spatial(Content) # Spatial(Style)

(* C27 as stated: for every one of the five methods, a style whose spatial *)
(* shape differs from content's is resized to content's spatial shape      *)
(* before processing, and processing continues without error               *)
C27_Original ==
    SpatialMismatch =>
       /\ Corrected.ok
       /\ <<Corrected.style_shape[3], Corrected.style_shape[4]>>
             = Spatial(Content)
(* C27, amended: wavelet, lab, hsv and wavelet_adaptive resize a style of  *)
(* another spatial shape to content's before processing; adain works on    *)
(* the style as given; all five continue without error                     *)
C27_ResizeExceptAdain ==
    SpatialMismatch =>
       /\ Corrected.ok
       /\ IF Val(method) = "adain"
          THEN Corrected.style_shape = Style.shape
          ELSE <<Corrected.style_shape[3], Corrected.style_shape[4]>>
                  = Spatial(Content)
C27_Witness ==
    /\ SpatialMismatch
    /\ Val(method) = "wavelet_adaptive"
    /\ Corrected.ok
    /\ Corrected.style_shape = Content.shape

(* C28 as stated: every one of the five methods does its arithmetic in     *)
(* 32-bit float and returns a tensor of content's original dtype           *)
C28_Original ==
    (~IsNone(corrected) /\ Corrected.ok) =>
       /\ Corrected.arith = "float32"
       /\ Corrected.dtype = Content.dtype
(* C28, amended: lab, hsv and wavelet_adaptive compute in 32-bit float and *)
(* return content's original dtype; adain and wavelet compute in, and      *)
(* return, the result type of content's and style's dtypes                 *)
C28_PromoteExceptAdainWavelet ==
    (~IsNone(corrected) /\ Corrected.ok) =>
       IF Val(method) \in {"lab", "hsv", "wavelet_adaptive"}
       THEN /\ Corrected.arith = "float32"
            /\ Corrected.dtype = Content.dtype
       ELSE /\ Corrected.arith = promote(Content.dtype, Style.dtype)
            /\ Corrected.dtype = promote(Content.dtype, Style.dtype)
C28_Witness ==
    /\ ~IsNone(corrected) /\ Corrected.ok
    /\ Val(method) = "lab"
    /\ Content.dtype = "bfloat16"
    /\ Corrected.dtype = "bfloat16"
    /\ Corrected.arith = "float32"

(* the rank torch.sort gave position i of source, counted from 0 *)
RankOf(i) ==
    (CHOOSE r \in 1..Len(Val(source)) : Val(source_indices)[r] = i) - 1
(* the element of reference_sorted the claim names for rank r *)
QuantileIndex(r, n_source, n_reference) ==
    (r * (n_reference - 1)) \div (n_source - 1)

(* C30: 1-D histogram matching is rank-preserving, every matched value is  *)
(* an element of reference; with equal lengths the element of rank r       *)
(* receives the r-th smallest reference value, with different lengths it   *)
(* receives reference_sorted[floor(r / (n_source - 1) * (n_reference - 1))]*)
C30_HistogramMatching ==
    ~IsNone(matched) =>
       LET src == Val(source)
           ref == Val(reference)
           out == Val(matched)
           n_source == Len(src)
           n_reference == Len(ref)
       IN /\ Len(out) = n_source
          /\ \A i, j \in 1..n_source : src[i] < src[j] => out[i] <= out[j]
          /\ \A i \in 1..n_source : \E k \in 1..n_reference : out[i] = ref[k]
          /\ n_source = n_reference =>
                \A i \in 1..n_source : out[i] = SortedSeq(ref)[RankOf(i) + 1]
          /\ (n_source # n_reference /\ n_source > 1) =>
                \A i \in 1..n_source :
                   out[i] = SortedSeq(ref)[QuantileIndex(RankOf(i), n_source,
                                                         n_reference) + 1]

(* the step of the hue bin bin_idx is about to run *)
AtBin == ~IsNone(matched_s) /\ bin_idx < num_bins
(* the step replaced the saturations under the bin's content mask by       *)
(* saturations of the style's bin and left the others as they were         *)
BinMatched ==
    /\ \A i \in content_mask :
          \E k \in style_mask : Val(matched_s')[i] = Val(style_s)[k]
    /\ \A i \in (1..Len(Val(content_s))) \ content_mask :
          Val(matched_s')[i] = Val(matched_s)[i]

C31_ResultHasContentShape ==
    (~IsNone(corrected) /\ Corrected.ok) => Corrected.shape = Content.shape

(* the wavelet method was applied to two equal images *)
EqualImages ==
    /\ ~IsNone(wave_result)
    /\ wave_content = wave_style
Tolerance(dtype) == (4 * Scale) \div Significand(dtype)
C33_OrdinalsAligned ==
    \A i \in 0..(Len(batch_samples) - 1) :
       ~IsNone(At(batch_samples, i)) => Val(At(batch_samples, i)).src = i

(* Phase 2 is being invoked on a context whose latents are all null *)
InvokedOnConsumed ==
    /\ pc = "idle" /\ NextPhase = 2
    /\ "all_latents" \in present /\ all_latents # <<>>
    /\ CountValid(all_latents) = 0
    /\ calls' # calls
(* C37: invoking Phase 2 on a context whose latents have all been consumed *)
(* leaves the upscaled latents produced before unchanged.                  *)
C37_ConsumedLeavesUpscaled ==
    [][InvokedOnConsumed => all_upscaled_latents' = all_upscaled_latents]_vars

(* Phase 4 is about to color-correct the sample of batch_idx *)
AboutToCorrect ==
    /\ pc = "p4"
    /\ batch_idx < Len(batch_samples)
    /\ ~IsNone(At(batch_samples, batch_idx))
    /\ Len(all_ori_lengths) > 0
    /\ ~IsNone(PostOri)
    /\ PostCorrects
(* C34: in Phase 4 with color correction enabled, the style passed to the  *)
(* color-correction method has as many frames as the sample it corrects,   *)
(* for every batch, those padded in Phase 1 and trimmed in Phase 4         *)
(* included.                                                               *)
C34_StyleFramesMatchSample ==
    AboutToCorrect =>
       Len(Val(At(all_transformed_videos, video_idx)).frames) = PostTrimmed

(* the window of input frames of the Phase-1 batch of ordinal i *)
WindowOf(i) ==
    [start |-> i * step,
     end |-> Min(i * step + batch_size, total_frames)]
(* C35: when Phase 1 has returned, every input frame index in              *)
(* [0, total_frames) lies in the window of at least one batch it encoded,  *)
(* for every batch_size >= 1 and every temporal_overlap; the fragment the  *)
(* overlap rule drops lies in the window of the batch before it.  The      *)
(* lengths recorded for the batches are those of their windows.            *)
C35_EveryFrameInAWindow ==
    /\ Returned(1) =>
          \A f \in 0..(total_frames - 1) :
             \E i \in 0..(encode_idx - 1) :
                WindowOf(i).start <= f /\ f < WindowOf(i).end
    /\ (Returned(1) /\ Len(calls) = 1) =>
          \A i \in 0..(encode_idx - 1) :
             At(all_ori_lengths, i)
                = Some(WindowOf(i).end - WindowOf(i).start)
C35_Witness ==
    /\ Returned(1) /\ Len(calls) = 1
    /\ total_frames = 7 /\ batch_size = 5 /\ temporal_overlap = 3
    /\ encode_idx = 2
    /\ batch_idx = 4
    /\ At(all_ori_lengths, 1) = Some(5)

(* every slot of a list holds a value *)
Filled(lst) == \A k \in 1..Len(lst) : ~IsNone(lst[k])
(* the Phase-1 loop is about to run an iteration *)
AboutToEncode ==
    /\ pc = "p1"
    /\ batch_idx < total_frames
    /\ ~BreakOff(batch_idx, total_frames, batch_size, overlap)
(* C36: when Phase 1 returns normally, it has encoded as many batches as   *)
(* the slot arrays were sized for: every index of latents[] and            *)
(* ori_lengths[], and of transformed_videos[] when color correction is on, *)
(* is filled, and no iteration writes past the end of the arrays.          *)
C36_SlotsMatchBatches ==
    /\ AboutToEncode =>
          /\ encode_idx < Len(all_latents)
          /\ encode_idx < Len(all_ori_lengths)
          /\ color_correction # "none" =>
                encode_idx < Len(all_transformed_videos)
    /\ (pc = "idle" /\ Returned(1) /\ Len(calls) = 1) =>
          /\ encode_idx = num_encode_batches
          /\ Len(all_latents) = num_encode_batches
          /\ Len(all_ori_lengths) = num_encode_batches
          /\ Filled(all_latents)
          /\ Filled(all_ori_lengths)
          /\ color_correction # "none" =>
                /\ Len(all_transformed_videos) = num_encode_batches
                /\ Filled(all_transformed_videos)
C36_Witness ==
    /\ pc = "idle" /\ Returned(1) /\ Len(calls) = 1
    /\ color_correction = "wavelet"
    /\ temporal_overlap = 2 /\ batch_size = 4 /\ total_frames = 7
    /\ encode_idx = 3
    /\ Len(all_transformed_videos) = 3
    /\ Filled(all_transformed_videos)
    /\ Filled(all_latents)

(* frames Phase 1 appended to its first k batches: what each stored        *)
(* transformed video has beyond the original length of its batch           *)
RECURSIVE PaddingAppended(_)
PaddingAppended(k) ==
    IF k = 0 THEN 0
    ELSE (Len(Val(all_transformed_videos[k]).frames)
             - Val(all_ori_lengths[k]))
         + PaddingAppended(k - 1)
(* Phase 1 has just returned, with the transformed videos kept *)
EncodedAll ==
    /\ pc = "idle" /\ Returned(1) /\ Len(calls) = 1
    /\ color_correction # "none"
(* C38: for total_frames >= 1, batch_size >= 1 and temporal_overlap in     *)
(* [0, batch_size), the padding_waste the planner reports equals the       *)
(* number of padding frames Phase 1 appended over the batches it encoded.  *)
C38_WasteIsPaddingAppended ==
    (/\ EncodedAll
     /\ total_frames >= 1 /\ batch_size >= 1
     /\ temporal_overlap < batch_size) =>
       calculate_optimal_batch_params(total_frames, batch_size,
                                      temporal_overlap).padding_waste
          = PaddingAppended(encode_idx)

(* the bins whose mask holds hue h *)
BinsOf(h) == {b \in 0..(num_bins - 1) : InBin(b, h)}
(* the bins already passed by the loop whose match was assigned *)
MatchedBins ==
    {b \in 0..(bin_idx - 1) :
        /\ EnoughPixels(Cardinality(Mask(b, Val(content_h))))
        /\ EnoughPixels(Cardinality(Mask(b, Val(style_h))))}
(* C39: the 12 hue bins are disjoint: every content pixel belongs to       *)
(* exactly one bin, and its saturation is rewritten by the match of at     *)
(* most one bin.                                                           *)
C39_BinsDisjoint ==
    ~IsNone(matched_s) =>
       \A i \in 1..Len(Val(content_h)) :
          /\ Cardinality(BinsOf(Val(content_h)[i])) = 1
          /\ Cardinality(BinsOf(Val(content_h)[i]) \cap MatchedBins) <= 1

====
